---------------------------- MODULE Spec2Model ----------------------------
(***************************************************************************)
(* A model of the nosqlite-rust engine: JSON values, the schema validator, *)
(* documents, collections, the catalog (Database), the document and        *)
(* collection services, the encrypted store file (File) and the Nosqlite   *)
(* facade with its auto-save.                                              *)
(***************************************************************************)
EXTENDS Integers, Sequences, FiniteSets, TLC

VARIABLES
    db,        \* the in-memory catalog: Database.collections
    now,       \* the system clock read by utils::now(), in seconds
    next_id,   \* number of document ids handed out so far (Uuid::new_v4)
    call,      \* the step just taken: the operation called and its result
    logged,    \* the errors the last call handed to NosqliteErrorHandler::log_error
    file,      \* the store file at the instance's path
    keyfile,   \* the key file at DEFAULT_KEY_PATH
    inst,      \* the Nosqlite instance of the process: "none" or "open"
    inflight,  \* the fs::write in progress, when File::save is followed step by step
    errors,    \* NosqliteErrorHandler.errors: the in-memory history of a handler
    logfile,   \* the lines of the log file that handler appends to
    db_path,   \* NosqliteErrorHandler.db_path: the store path, as its parts
    peer,      \* a second Nosqlite instance on the same path: its state and catalog
    vdoc,      \* validator harness: the document map under test
    vschema,   \* validator harness: the schema map under test
    vresult    \* validator harness: the validator's answer

vars == <<db, now, next_id, call, logged, file, keyfile, inst, inflight,
          errors, logfile, db_path, peer, vdoc, vschema, vresult>>
disk == <<file, keyfile>>
proc == <<inst, inflight>>
journal == <<errors, logfile, db_path>>
harness == <<vdoc, vschema, vresult>>

(***************************************************************************)
(* Bounds of the model.                                                    *)
(***************************************************************************)
MaxClock == 1
MaxIds == 2

(***************************************************************************)
(* serde_json::Value: a tagged tree.  An object's v is a function from its *)
(* keys to values, an array's v is a sequence.                             *)
(***************************************************************************)
Null == [t |-> "null", v |-> "null"]
Bool(b) == [t |-> "boolean", v |-> b]
Num(n) == [t |-> "number", v |-> n]
Str(s) == [t |-> "string", v |-> s]
Arr(s) == [t |-> "array", v |-> s]
Obj(f) == [t |-> "object", v |-> f]

is_string(val) == val.t = "string"
is_number(val) == val.t = "number"
is_boolean(val) == val.t = "boolean"
is_array(val) == val.t = "array"
is_object(val) == val.t = "object"

EmptyMap == <<>>

(***************************************************************************)
(* str::to_lowercase on the type names the model uses.                     *)
(***************************************************************************)
to_lowercase(s) ==
    CASE s = "String" -> "string"
      [] s = "NUMBER" -> "number"
      [] s = "Boolean" -> "boolean"
      [] s = "Array" -> "array"
      [] s = "OBJECT" -> "object"
      [] OTHER -> s

type_matches_exact_case(expected, val) ==
    CASE expected = "string" -> is_string(val)
      [] expected = "number" -> is_number(val)
      [] expected = "boolean" -> is_boolean(val)
      [] expected = "array" -> is_array(val)
      [] expected = "object" -> is_object(val)
      [] OTHER -> FALSE

type_matches_lenient(expected, val) ==
    LET e == to_lowercase(expected) IN
    CASE e = "string" -> is_string(val)
      [] e = "number" -> is_number(val)
      [] e = "boolean" -> is_boolean(val)
      [] e = "array" -> is_array(val)
      [] e = "object" -> is_object(val)
      [] OTHER -> TRUE

type_matches(expected, val) ==
    LET e == to_lowercase(expected) IN
    CASE e = "string" -> is_string(val)
      [] e = "number" -> is_number(val)
      [] e = "boolean" -> is_boolean(val)
      [] e = "array" -> is_array(val)
      [] e = "object" -> is_object(val)
      [] OTHER -> FALSE

(***************************************************************************)
(* validate_against_structure: the loop over the schema's entries, with    *)
(* its early returns.  validate_from(keys, doc, schema) is the loop with   *)
(* the entries `keys` still to visit.                                      *)
(***************************************************************************)
RECURSIVE validate_from(_, _, _)
validate_against_structure_shallow(doc, schema) ==
    \A key \in DOMAIN schema :
        /\ key \in DOMAIN doc
        /\ \/ is_string(schema[key]) /\ type_matches(schema[key].v, doc[key])
           \/ is_object(schema[key]) /\ is_object(doc[key])

validate_against_structure(doc, schema) ==
    validate_from(DOMAIN schema, doc, schema)

validate_from(keys, doc, schema) ==
    IF keys = {} THEN TRUE
    ELSE
        LET key == CHOOSE k \in keys : TRUE
            expected_type == schema[key]
        IN
        IF key \notin DOMAIN doc THEN FALSE
        ELSE
            LET actual_value == doc[key] IN
            IF is_string(expected_type)
            THEN IF ~type_matches(expected_type.v, actual_value)
                 THEN FALSE
                 ELSE validate_from(keys \ {key}, doc, schema)
            ELSE IF is_object(expected_type) /\ is_object(actual_value)
            THEN IF ~validate_against_structure(actual_value.v, expected_type.v)
                 THEN FALSE
                 ELSE validate_from(keys \ {key}, doc, schema)
            ELSE FALSE


(***************************************************************************)
(* get_nested_value(data, path): the value reached from data by following  *)
(* the dot-separated path through nested objects, or None.  split_dots is  *)
(* str::split('.') on the field names the model uses.                      *)
(***************************************************************************)
None == [some |-> FALSE, v |-> Null]
Some(val) == [some |-> TRUE, v |-> val]

split_dots(path) ==
    CASE path = "meta.k" -> <<"meta", "k">>
      [] path = "name.first" -> <<"name", "first">>
      [] OTHER -> <<path>>

RECURSIVE walk_path(_, _)
walk_path(current, keys) ==
    IF keys = <<>> THEN Some(current)
    ELSE IF is_object(current) /\ Head(keys) \in DOMAIN current.v
         THEN walk_path(current.v[Head(keys)], Tail(keys))
         ELSE None

get_nested_value(data, path) == walk_path(data, split_dots(path))

(***************************************************************************)
(* Document::new: a fresh id, the payload, both timestamps set to now().   *)
(* Uuid::new_v4 is modelled as a value never handed out before.            *)
(***************************************************************************)
Uuid_new_v4(n) == ToString(n)

Document_new(data, id, t) ==
    [id |-> id, data |-> data, updated_at |-> t, created_at |-> t]

(***************************************************************************)
(* Collection.  Each operation yields the collection's new documents, the  *)
(* result returned and the errors handed to the handler, in order.         *)
(***************************************************************************)
Collection_new(name, structure, t) ==
    [name |-> name, documents |-> <<>>, created_at |-> t, structure |-> structure]

Outcome(documents, res, log) == [documents |-> documents, res |-> res, log |-> log]
Fail(documents, err) == Outcome(documents, err, <<err>>)

Collection_add_document_unchecked(self, data, id, t) ==
    IF is_object(data)
    THEN Outcome(Append(self.documents, Document_new(data, id, t)), "Ok", <<>>)
    ELSE Fail(self.documents, "DocumentInvalid")

Collection_add_document_prepend(self, data, id, t) ==
    IF is_object(data)
    THEN IF is_object(self.structure)
         THEN IF ~validate_against_structure(data.v, self.structure.v)
              THEN Fail(self.documents, "DocumentInvalid")
              ELSE Outcome(<<Document_new(data, id, t)>> \o self.documents, "Ok", <<>>)
         ELSE Fail(self.documents, "InvalidCollectionStructure")
    ELSE Fail(self.documents, "DocumentInvalid")

Collection_add_document_push_first(self, data, id, t) ==
    IF is_object(data)
    THEN IF is_object(self.structure)
         THEN IF ~validate_against_structure(data.v, self.structure.v)
              THEN Fail(Append(self.documents, Document_new(data, id, t)),
                        "DocumentInvalid")
              ELSE Outcome(Append(self.documents, Document_new(data, id, t)),
                           "Ok", <<>>)
         ELSE Fail(self.documents, "InvalidCollectionStructure")
    ELSE Fail(self.documents, "DocumentInvalid")

Collection_add_document_any_value(self, data, id, t) ==
    IF is_object(data) /\ ~is_object(self.structure)
    THEN Fail(self.documents, "InvalidCollectionStructure")
    ELSE IF is_object(data) /\ ~validate_against_structure(data.v, self.structure.v)
    THEN Fail(self.documents, "DocumentInvalid")
    ELSE Outcome(Append(self.documents, Document_new(data, id, t)), "Ok", <<>>)

Collection_add_document(self, data, id, t) ==
    IF is_object(data)
    THEN IF is_object(self.structure)
         THEN IF ~validate_against_structure(data.v, self.structure.v)
              THEN Fail(self.documents, "DocumentInvalid")
              ELSE Outcome(Append(self.documents, Document_new(data, id, t)), "Ok", <<>>)
         ELSE Fail(self.documents, "InvalidCollectionStructure")
    ELSE Fail(self.documents, "DocumentInvalid")

matching_indices(documents, field_name, field_value) ==
    {i \in 1..Len(documents) :
        get_nested_value(documents[i].data, field_name) = Some(field_value)}

Collection_update_documents_first_only(self, field_name, field_value, new_data, t) ==
    IF ~is_object(new_data)
    THEN Fail(self.documents, "DocumentInvalid")
    ELSE IF is_object(self.structure)
            /\ ~validate_against_structure(new_data.v, self.structure.v)
    THEN Fail(self.documents, "DocumentInvalid")
    ELSE
        LET m == matching_indices(self.documents, field_name, field_value) IN
        IF m = {}
        THEN Fail(self.documents, "DocumentNotFound")
        ELSE LET first == CHOOSE i \in m : \A j \in m : i <= j IN
             Outcome([self.documents EXCEPT ![first].data = new_data,
                                            ![first].updated_at = t],
                     "Ok", <<>>)

Collection_update_documents_lookup_first(self, field_name, field_value, new_data, t) ==
    LET m == matching_indices(self.documents, field_name, field_value) IN
    IF m = {}
    THEN Fail(self.documents, "DocumentNotFound")
    ELSE IF ~is_object(new_data)
    THEN Fail(self.documents, "DocumentInvalid")
    ELSE IF is_object(self.structure)
            /\ ~validate_against_structure(new_data.v, self.structure.v)
    THEN Fail(self.documents, "DocumentInvalid")
    ELSE Outcome([i \in 1..Len(self.documents) |->
                     IF i \in m
                     THEN [self.documents[i] EXCEPT !.data = new_data,
                                                    !.updated_at = t]
                     ELSE self.documents[i]],
                 "Ok", <<>>)

Collection_update_documents_recreating(self, field_name, field_value, new_data, t) ==
    IF ~is_object(new_data)
    THEN Fail(self.documents, "DocumentInvalid")
    ELSE IF is_object(self.structure)
            /\ ~validate_against_structure(new_data.v, self.structure.v)
    THEN Fail(self.documents, "DocumentInvalid")
    ELSE
        LET m == matching_indices(self.documents, field_name, field_value) IN
        IF m = {}
        THEN Fail(self.documents, "DocumentNotFound")
        ELSE Outcome([i \in 1..Len(self.documents) |->
                         IF i \in m
                         THEN Document_new(new_data, self.documents[i].id, t)
                         ELSE self.documents[i]],
                     "Ok", <<>>)

Collection_update_documents(self, field_name, field_value, new_data, t) ==
    IF ~is_object(new_data)
    THEN Fail(self.documents, "DocumentInvalid")
    ELSE IF is_object(self.structure)
            /\ ~validate_against_structure(new_data.v, self.structure.v)
    THEN Fail(self.documents, "DocumentInvalid")
    ELSE
        LET m == matching_indices(self.documents, field_name, field_value) IN
        IF m = {}
        THEN Fail(self.documents, "DocumentNotFound")
        ELSE Outcome([i \in 1..Len(self.documents) |->
                         IF i \in m
                         THEN [self.documents[i] EXCEPT !.data = new_data,
                                                        !.updated_at = t]
                         ELSE self.documents[i]],
                     "Ok", <<>>)

(***************************************************************************)
(* update_documents_field: the loop over the matching indices, in order;   *)
(* a matched document whose data is not an object stops the loop with the  *)
(* documents before it already patched.                                    *)
(***************************************************************************)
map_insert(map, key, val) ==
    [k \in (DOMAIN map) \cup {key} |-> IF k = key THEN val ELSE map[k]]

RECURSIVE patch_from(_, _, _, _, _)
patch_from(documents, indices, target_field, value, t) ==
    IF indices = {} THEN Outcome(documents, "Ok", <<>>)
    ELSE
        LET index == CHOOSE i \in indices : \A j \in indices : i <= j IN
        IF is_object(documents[index].data)
        THEN patch_from(
                 [documents EXCEPT
                     ![index].data = Obj(map_insert(@.v, target_field, value)),
                     ![index].updated_at = t],
                 indices \ {index}, target_field, value, t)
        ELSE Fail(documents, "DocumentInvalid")

Collection_update_documents_field_validating(self, field_name, field_value, target_field, value, t) ==
    LET m == matching_indices(self.documents, field_name, field_value) IN
    IF m = {}
    THEN Fail(self.documents, "DocumentNotFound")
    ELSE LET o == patch_from(self.documents, m, target_field, value, t) IN
         IF /\ is_object(self.structure)
            /\ \E i \in m : ~validate_against_structure(o.documents[i].data.v,
                                                        self.structure.v)
         THEN Fail(self.documents, "DocumentInvalid")
         ELSE o

Collection_update_documents_field(self, field_name, field_value, target_field, value, t) ==
    LET m == matching_indices(self.documents, field_name, field_value) IN
    IF m = {}
    THEN Fail(self.documents, "DocumentNotFound")
    ELSE patch_from(self.documents, m, target_field, value, t)

\* Vec::retain with the closure of delete_documents: keeps, in order, the
\* documents whose value at field_name differs from field_value.
retain(documents, field_name, field_value) ==
    LET F[i \in 0..Len(documents)] ==
            IF i = 0 THEN <<>>
            ELSE IF get_nested_value(documents[i].data, field_name) # Some(field_value)
                 THEN Append(F[i - 1], documents[i])
                 ELSE F[i - 1]
    IN F[Len(documents)]

remove_at(seq, index) ==
    SubSeq(seq, 1, index - 1) \o SubSeq(seq, index + 1, Len(seq))

Collection_delete_documents_first_only(self, field_name, field_value) ==
    LET m == matching_indices(self.documents, field_name, field_value) IN
    IF m = {}
    THEN Fail(self.documents, "DocumentNotFound")
    ELSE Outcome(remove_at(self.documents, CHOOSE i \in m : \A j \in m : i <= j),
                 "Ok", <<>>)

Collection_delete_documents_inverted(self, field_name, field_value) ==
    LET original_len == Len(self.documents)
        kept == SelectSeq(self.documents,
                    LAMBDA doc : get_nested_value(doc.data, field_name) = Some(field_value))
    IN
    IF Len(kept) = original_len
    THEN Fail(kept, "DocumentNotFound")
    ELSE Outcome(kept, "Ok", <<>>)

Collection_delete_documents(self, field_name, field_value) ==
    LET original_len == Len(self.documents)
        kept == retain(self.documents, field_name, field_value)
    IN
    IF Len(kept) = original_len
    THEN Fail(kept, "DocumentNotFound")
    ELSE Outcome(kept, "Ok", <<>>)

Collection_get_document_last(self, field_name, field_value) ==
    LET m == matching_indices(self.documents, field_name, field_value) IN
    IF m = {} THEN None
    ELSE Some(self.documents[CHOOSE i \in m : \A j \in m : i >= j])

Collection_get_document(self, field_name, field_value) ==
    LET m == matching_indices(self.documents, field_name, field_value) IN
    IF m = {} THEN None
    ELSE Some(self.documents[CHOOSE i \in m : \A j \in m : i <= j])

(***************************************************************************)
(* Database.  Each operation yields the new collections, the result and    *)
(* the errors handed to the handler.                                       *)
(***************************************************************************)
DbOutcome(collections, res, log) == [db |-> collections, res |-> res, log |-> log]
DbFail(collections, err) == DbOutcome(collections, err, <<err>>)

\* Iterator::position(|c| c.name == name): the first index, 0 for None.
position(collections, name) ==
    LET hits == {i \in 1..Len(collections) : collections[i].name = name} IN
    IF hits = {} THEN 0 ELSE CHOOSE i \in hits : \A j \in hits : i <= j

Database_new == <<>>

Database_add_collection_no_check(self, name, structure, t) ==
    IF name = ""
    THEN DbFail(self, "CollectionNameEmpty")
    ELSE IF ~is_object(structure)
    THEN DbFail(self, "DocumentInvalid")
    ELSE DbOutcome(Append(self, Collection_new(name, structure, t)), "Ok", <<>>)

Database_add_collection_any_structure(self, name, structure, t) ==
    IF \E i \in 1..Len(self) : self[i].name = name
    THEN DbFail(self, "CollectionAlreadyExists")
    ELSE IF name = ""
    THEN DbFail(self, "CollectionNameEmpty")
    ELSE DbOutcome(Append(self, Collection_new(name, structure, t)), "Ok", <<>>)

Database_add_collection(self, name, structure, t) ==
    IF \E i \in 1..Len(self) : self[i].name = name
    THEN DbFail(self, "CollectionAlreadyExists")
    ELSE IF name = ""
    THEN DbFail(self, "CollectionNameEmpty")
    ELSE IF ~is_object(structure)
    THEN DbFail(self, "DocumentInvalid")
    ELSE DbOutcome(Append(self, Collection_new(name, structure, t)), "Ok", <<>>)

Database_remove_collection_pop(self, name) ==
    LET index == position(self, name) IN
    IF index = 0
    THEN DbFail(self, "CollectionNotFound")
    ELSE DbOutcome(remove_at(self, Len(self)), "Ok", <<>>)

Database_remove_collection(self, name) ==
    LET index == position(self, name) IN
    IF index = 0
    THEN DbFail(self, "CollectionNotFound")
    ELSE DbOutcome(remove_at(self, index), "Ok", <<>>)

Database_get_collection(self, name) ==
    LET index == position(self, name) IN
    IF index = 0 THEN None ELSE Some(self[index])

(***************************************************************************)
(* collection_service and document_service: look the collection up, log    *)
(* CollectionNotFound when it is missing, else delegate to the Collection. *)
(***************************************************************************)
create_collection(d, name, structure, t) ==
    Database_add_collection(d, name, structure, t)

delete_collection(d, name) == Database_remove_collection(d, name)

\* The outcome of a Collection operation, seen from the Database that owns
\* the collection (the operation ran on the &mut Collection at `index`).
in_collection(d, index, o) ==
    DbOutcome([d EXCEPT ![index].documents = o.documents], o.res, o.log)

insert_document(d, collection_name, data, id, t) ==
    LET index == position(d, collection_name) IN
    IF index = 0
    THEN DbFail(d, "CollectionNotFound")
    ELSE in_collection(d, index, Collection_add_document(d[index], data, id, t))

update_documents(d, collection_name, field_name, field_value, data, t) ==
    LET index == position(d, collection_name) IN
    IF index = 0
    THEN DbFail(d, "CollectionNotFound")
    ELSE in_collection(d, index,
             Collection_update_documents(d[index], field_name, field_value, data, t))

update_documents_field(d, collection_name, field_name, field_value, target_field, value, t) ==
    LET index == position(d, collection_name) IN
    IF index = 0
    THEN DbFail(d, "CollectionNotFound")
    ELSE in_collection(d, index,
             Collection_update_documents_field(d[index], field_name, field_value,
                                               target_field, value, t))

delete_documents(d, collection_name, field_name, field_value) ==
    LET index == position(d, collection_name) IN
    IF index = 0
    THEN DbFail(d, "CollectionNotFound")
    ELSE in_collection(d, index,
             Collection_delete_documents(d[index], field_name, field_value))

(***************************************************************************)
(* Files, texts and byte strings.                                          *)
(*   A plaintext is JSON text (kind "json", with the tree it denotes),     *)
(*   other UTF-8 text (kind "garbage") or bytes that are not UTF-8 (kind   *)
(*   "binary").                                                            *)
(*   A ciphertext with its tag records the key, the nonce and the          *)
(*   plaintext it seals, and whether its bytes are intact.                 *)
(*   A byte string nonce || ciphertext has `head` bytes of nonce (12 when  *)
(*   the nonce is whole; fewer when the bytes stop inside it).             *)
(*   A file's content is base64 text (of such a byte string), other text   *)
(*   (kind "text"), hex text (a key file) or not UTF-8 (kind "binary").    *)
(***************************************************************************)
KeyLen == 32
NonceLen == 12

NoText == [kind |-> "garbage", tree |-> Null]
NoCt == [key |-> "none", nonce |-> "none", pt |-> NoText, intact |-> FALSE]
NoBytes == [head |-> 0, nonce |-> "none", ct |-> NoCt, len |-> 0, id |-> "none"]
NoContent == [kind |-> "text", bytes |-> NoBytes]
NoFile == [exists |-> FALSE, content |-> NoContent]
FileWith(content) == [exists |-> TRUE, content |-> content]

\* general_purpose::STANDARD.encode / decode
base64_encode(bytes) == [kind |-> "base64", bytes |-> bytes]
base64_decode(text) ==
    IF text.kind = "base64"
    THEN [ok |-> TRUE, bytes |-> text.bytes]
    ELSE [ok |-> FALSE, bytes |-> NoBytes]

\* hex::encode / hex::decode; a key of KeyLen bytes is named by its id
KeyBytes(key) == [head |-> 0, nonce |-> "none", ct |-> NoCt, len |-> KeyLen, id |-> key]
hex_encode(bytes) == [kind |-> "hex", bytes |-> bytes]
hex_decode(text) ==
    IF text.kind = "hex"
    THEN [ok |-> TRUE, bytes |-> text.bytes]
    ELSE [ok |-> FALSE, bytes |-> NoBytes]

(***************************************************************************)
(* serde: #[derive(Serialize, Deserialize)] of Document, Collection and    *)
(* Database, to and from the JSON tree, and serde_json's text.             *)
(***************************************************************************)
ser_document(doc) ==
    Obj([id |-> Str(doc.id), data |-> doc.data,
         updated_at |-> Num(doc.updated_at), created_at |-> Num(doc.created_at)])

ser_collection_null_structure(c) ==
    Obj([name |-> Str(c.name),
         documents |-> Arr([i \in 1..Len(c.documents) |-> ser_document(c.documents[i])]),
         created_at |-> Num(c.created_at),
         structure |-> Null])

ser_collection(c) ==
    Obj([name |-> Str(c.name),
         documents |-> Arr([i \in 1..Len(c.documents) |-> ser_document(c.documents[i])]),
         created_at |-> Num(c.created_at),
         structure |-> c.structure])

ser_database(d) ==
    Obj([collections |-> Arr([i \in 1..Len(d) |-> ser_collection(d[i])])])

to_string_pretty(d) == [kind |-> "json", tree |-> ser_database(d)]

is_u64(val) == is_number(val) /\ val.v \in Nat

de_document_ok(val) ==
    /\ is_object(val)
    /\ {"id", "data", "updated_at", "created_at"} \subseteq DOMAIN val.v
    /\ is_string(val.v.id)
    /\ is_u64(val.v.updated_at)
    /\ is_u64(val.v.created_at)

de_document(val) ==
    [id |-> val.v.id.v, data |-> val.v.data,
     updated_at |-> val.v.updated_at.v, created_at |-> val.v.created_at.v]

de_collection_ok(val) ==
    /\ is_object(val)
    /\ {"name", "documents", "created_at", "structure"} \subseteq DOMAIN val.v
    /\ is_string(val.v.name)
    /\ is_array(val.v.documents)
    /\ \A i \in 1..Len(val.v.documents.v) : de_document_ok(val.v.documents.v[i])
    /\ is_u64(val.v.created_at)

de_collection(val) ==
    [name |-> val.v.name.v,
     documents |-> [i \in 1..Len(val.v.documents.v) |-> de_document(val.v.documents.v[i])],
     created_at |-> val.v.created_at.v,
     structure |-> val.v.structure]

de_database_ok(val) ==
    /\ is_object(val)
    /\ "collections" \in DOMAIN val.v
    /\ is_array(val.v.collections)
    /\ \A i \in 1..Len(val.v.collections.v) : de_collection_ok(val.v.collections.v[i])

de_database(val) ==
    [i \in 1..Len(val.v.collections.v) |-> de_collection(val.v.collections.v[i])]

from_str(text) ==
    IF text.kind = "json" /\ de_database_ok(text.tree)
    THEN [ok |-> TRUE, db |-> de_database(text.tree)]
    ELSE [ok |-> FALSE, db |-> <<>>]

(***************************************************************************)
(* File: the key, encrypt, decrypt, save and load_or_create.  Each yields  *)
(* its result ("Ok", an error kind, or "Panic" when the process aborts),   *)
(* the files as it leaves them and the errors handed to the handler.       *)
(***************************************************************************)
KeyOutcome(res, key, kf, log) == [res |-> res, key |-> key, keyfile |-> kf, log |-> log]

File_load_or_generate_key_always_fresh(kf, raw) ==
    KeyOutcome("Ok", raw, FileWith(hex_encode(KeyBytes(raw))), <<>>)

\* raw: the 32 random bytes rand::rng() would yield
File_load_or_generate_key(kf, raw) ==
    IF kf.exists
    THEN IF kf.content.kind = "binary"
         THEN KeyOutcome("IoError", "none", kf, <<"IoError">>)
         ELSE LET bytes == hex_decode(kf.content) IN
              IF ~bytes.ok
              THEN KeyOutcome("HexDecodeError", "none", kf, <<"HexDecodeError">>)
              ELSE IF bytes.bytes.len < KeyLen
              THEN KeyOutcome("Panic", "none", kf, <<>>)
              ELSE KeyOutcome("Ok", bytes.bytes.id, kf, <<>>)
    ELSE KeyOutcome("Ok", raw, FileWith(hex_encode(KeyBytes(raw))), <<>>)

\* Aes256Gcm::encrypt / decrypt
aead_encrypt(key, nonce, pt) == [key |-> key, nonce |-> nonce, pt |-> pt, intact |-> TRUE]
aead_decrypt(key, nonce, ct) ==
    IF ct.intact /\ ct.key = key /\ ct.nonce = nonce
    THEN [ok |-> TRUE, pt |-> ct.pt]
    ELSE [ok |-> FALSE, pt |-> NoText]

TextOutcome(res, text, log) == [res |-> res, text |-> text, log |-> log]

File_encrypt_header_lost(data, key, nonce) ==
    LET ciphertext == aead_encrypt(key, nonce, data)
        result == [head |-> NonceLen, nonce |-> "none", ct |-> ciphertext,
                   len |-> 0, id |-> "none"]
    IN TextOutcome("Ok", base64_encode(result), <<>>)

\* nonce: the 12 random bytes Aes256Gcm::generate_nonce(&mut OsRng) would yield
File_encrypt(data, key, nonce) ==
    LET ciphertext == aead_encrypt(key, nonce, data)
        result == [head |-> NonceLen, nonce |-> nonce, ct |-> ciphertext,
                   len |-> 0, id |-> "none"]
    IN TextOutcome("Ok", base64_encode(result), <<>>)

\* decoded.split_at(12) panics when fewer than 12 bytes were decoded
File_decrypt(data, key) ==
    LET decoded == base64_decode(data) IN
    IF ~decoded.ok
    THEN TextOutcome("Base64DecodeError", NoText, <<"Base64DecodeError">>)
    ELSE IF decoded.bytes.head < NonceLen
    THEN TextOutcome("Panic", NoText, <<>>)
    ELSE LET plaintext == aead_decrypt(key, decoded.bytes.nonce, decoded.bytes.ct) IN
         IF ~plaintext.ok
         THEN TextOutcome("EncryptionError", NoText, <<"EncryptionError">>)
         ELSE IF plaintext.pt.kind = "binary"
         THEN TextOutcome("DeserializationError", NoText, <<"DeserializationError">>)
         ELSE TextOutcome("Ok", plaintext.pt, <<>>)

LoadOutcome(res, d, kf, log) == [res |-> res, db |-> d, keyfile |-> kf, log |-> log]

File_load_or_create(f, kf, raw) ==
    LET key == File_load_or_generate_key(kf, raw) IN
    IF key.res # "Ok"
    THEN LoadOutcome(key.res, <<>>, key.keyfile, key.log)
    ELSE IF f.exists
    THEN IF f.content.kind = "binary"
         THEN LoadOutcome("IoError", <<>>, key.keyfile, <<"IoError">>)
         ELSE LET decrypted == File_decrypt(f.content, key.key) IN
              IF decrypted.res = "Panic"
              THEN LoadOutcome("Panic", <<>>, key.keyfile, decrypted.log)
              ELSE IF decrypted.res # "Ok"
              THEN LoadOutcome("EncryptionError", <<>>, key.keyfile,
                               decrypted.log \o <<"EncryptionError">>)
              ELSE LET parsed == from_str(decrypted.text) IN
                   IF ~parsed.ok
                   THEN LoadOutcome("InvalidDatabaseFormat", <<>>, key.keyfile,
                                    <<"DeserializationError", "InvalidDatabaseFormat">>)
                   ELSE LoadOutcome("Ok", parsed.db, key.keyfile, <<>>)
    ELSE LoadOutcome("Ok", Database_new, key.keyfile, <<>>)

(***************************************************************************)
(* fs::write(path, contents): create-or-truncate, then write_all.  `w` is  *)
(* what the file system does: "ok"; "denied" (the open fails, the file is  *)
(* untouched); or the write stops after the truncation, leaving the file   *)
(* empty ("empty") or holding a prefix of the contents that ends inside    *)
(* the nonce ("in_nonce"), inside the ciphertext ("in_ct") or off a base64 *)
(* quantum ("bad_base64").                                                 *)
(***************************************************************************)
WriteOutcomes == {"ok", "denied", "empty", "in_nonce", "in_ct", "bad_base64"}

Prefix(text, cut) ==
    CASE cut = "empty" ->
            base64_encode([text.bytes EXCEPT !.head = 0, !.ct = NoCt, !.nonce = "none"])
      [] cut = "in_nonce" ->
            base64_encode([text.bytes EXCEPT !.head = 5, !.ct = NoCt, !.nonce = "none"])
      [] cut = "in_ct" ->
            base64_encode([text.bytes EXCEPT !.ct.intact = FALSE])
      [] OTHER -> NoContent

fs_write(f, contents, w) ==
    CASE w = "ok" -> [ok |-> TRUE, file |-> FileWith(contents)]
      [] w = "denied" -> [ok |-> FALSE, file |-> f]
      [] OTHER -> [ok |-> FALSE, file |-> FileWith(Prefix(contents, w))]

SaveOutcome(res, f, kf, log) == [res |-> res, file |-> f, keyfile |-> kf, log |-> log]

File_save_fresh_key(f, kf, d, raw, nonce, w) ==
    LET key == File_load_or_generate_key(kf, raw) IN
    IF key.res # "Ok"
    THEN SaveOutcome(key.res, f, key.keyfile, key.log)
    ELSE LET json == to_string_pretty(d)
             encrypted == File_encrypt(json, raw, nonce)
             written == fs_write(f, encrypted.text, w)
         IN
         IF ~written.ok
         THEN SaveOutcome("IoError", written.file, key.keyfile, <<"IoError">>)
         ELSE SaveOutcome("Ok", written.file, key.keyfile, <<>>)

File_save_unless_present(f, kf, d, raw, nonce, w) ==
    LET key == File_load_or_generate_key(kf, raw) IN
    IF key.res # "Ok"
    THEN SaveOutcome(key.res, f, key.keyfile, key.log)
    ELSE IF f.exists
    THEN SaveOutcome("Ok", f, key.keyfile, <<>>)
    ELSE LET json == to_string_pretty(d)
             encrypted == File_encrypt(json, key.key, nonce)
             written == fs_write(f, encrypted.text, w)
         IN
         IF ~written.ok
         THEN SaveOutcome("IoError", written.file, key.keyfile, <<"IoError">>)
         ELSE SaveOutcome("Ok", written.file, key.keyfile, <<>>)

File_save(f, kf, d, raw, nonce, w) ==
    LET key == File_load_or_generate_key(kf, raw) IN
    IF key.res # "Ok"
    THEN SaveOutcome(key.res, f, key.keyfile, key.log)
    ELSE LET json == to_string_pretty(d)
             encrypted == File_encrypt(json, key.key, nonce)
             written == fs_write(f, encrypted.text, w)
         IN
         IF ~written.ok
         THEN SaveOutcome("IoError", written.file, key.keyfile, <<"IoError">>)
         ELSE SaveOutcome("Ok", written.file, key.keyfile, <<>>)

relog_silent(o) == o

\* database_service: an error of File is logged once more and passed on
relog(o) ==
    IF o.res \in {"Ok", "Panic"} THEN o ELSE [o EXCEPT !.log = @ \o <<o.res>>]

load_or_create_database(f, kf, raw) == relog(File_load_or_create(f, kf, raw))

save_database(f, kf, d, raw, nonce, w) == relog(File_save(f, kf, d, raw, nonce, w))

(***************************************************************************)
(* The validator harness: validate_against_structure applied to every      *)
(* document map and schema map of a bounded universe.                      *)
(***************************************************************************)
VKeys == {"name", "meta"}
VDocVals == {Str("Alice"), Num(42), Bool(TRUE), Null, Arr(<<>>),
             Obj(EmptyMap), Obj([k |-> Num(1)]), Obj([k |-> Str("x"), z |-> Null])}
VTypeNames == {"string", "String", "number", "boolean", "Array", "object", "text"}
VSchemaVals == {Str(n) : n \in VTypeNames}
                 \cup {Num(42), Obj(EmptyMap), Obj([k |-> Str("number")]),
                       Obj([k |-> Str("text")])}

Maps(keys, vals) == UNION {[ks -> vals] : ks \in SUBSET keys}

VDocs == Maps(VKeys, VDocVals)
            \cup {[name |-> Str("Alice"), extra |-> Null],
                  [name |-> Num(42), extra |-> Null],
                  [extra |-> Null],
                  [name |-> Str("Alice"), meta |-> Obj([k |-> Num(1)]), extra |-> Null]}
VSchemas == Maps(VKeys, VSchemaVals)

NoCall == [op |-> "none", res |-> "none"]
NoWrite == [active |-> FALSE, text |-> NoContent]

BoolStr(b) == IF b THEN "true" ELSE "false"

\* a store path, as the parts str::replace tells apart
DefaultPath == <<"data", ".nosqlite">>

InitRest ==
    /\ db = <<>>
    /\ now = 0
    /\ next_id = 0
    /\ call = NoCall
    /\ logged = <<>>
    /\ file = NoFile
    /\ keyfile = NoFile
    /\ inst = "none"
    /\ inflight = NoWrite
    /\ errors = <<>>
    /\ logfile = <<>>
    /\ peer = [inst |-> "none", db |-> <<>>]

InitValidate ==
    /\ InitRest
    /\ db_path = DefaultPath
    /\ vdoc \in VDocs
    /\ vschema \in VSchemas
    /\ vresult = "none"

Validate ==
    /\ vresult = "none"
    /\ vresult' = BoolStr(validate_against_structure(vdoc, vschema))
    /\ UNCHANGED <<db, now, next_id, call, logged, disk, proc, journal, peer, vdoc, vschema>>

NextValidate == Validate

SpecValidate == InitValidate /\ [][NextValidate]_vars

(***************************************************************************)
(* C3.  The declarative reading of the validator: a document map conforms  *)
(* to a schema map iff every schema key is present in the document and     *)
(* either the schema entry is one of the five type names (in any case) and *)
(* the document's value has that type, or the schema entry is an object,   *)
(* the document's value is an object and it conforms recursively.          *)
(***************************************************************************)
TypeNameOf(val) == val.t

RECURSIVE Conforms(_, _)
Conforms(D, S) ==
    \A k \in DOMAIN S :
        /\ k \in DOMAIN D
        /\ \/ /\ S[k].t = "string"
              /\ to_lowercase(S[k].v) \in {"string", "number", "boolean", "array", "object"}
              /\ TypeNameOf(D[k]) = to_lowercase(S[k].v)
           \/ /\ S[k].t = "object"
              /\ D[k].t = "object"
              /\ Conforms(D[k].v, S[k].v)

Restrict(f, ks) == [k \in (DOMAIN f) \cap ks |-> f[k]]

HasBadLeaf(S) ==
    \E k \in DOMAIN S :
        \/ S[k].t \notin {"string", "object"}
        \/ S[k].t = "string"
           /\ to_lowercase(S[k].v) \notin {"string", "number", "boolean", "array", "object"}

\* C3: the validator answers true exactly for conforming documents; an
\* unrecognized type name or a schema entry that is neither a string nor an
\* object yields false; keys of the document outside the schema do not change
\* the answer; the empty schema accepts every document map.
C3_ValidateIffConforms ==
    vresult # "none" =>
        /\ vresult = BoolStr(Conforms(vdoc, vschema))
        /\ (HasBadLeaf(vschema) => vresult = "false")
        /\ vresult = BoolStr(validate_against_structure(
                                 Restrict(vdoc, DOMAIN vschema), vschema))
        /\ (vschema = EmptyMap => vresult = "true")

\* C3 witness: a nested schema with a mixed-case type name accepted a document
\* that carries an extra key.
C3_Witness ==
    /\ vresult = "true"
    /\ vschema = [name |-> Str("String"), meta |-> Obj([k |-> Str("number")])]
    /\ vdoc = [name |-> Str("Alice"), meta |-> Obj([k |-> Num(1)]), extra |-> Null]


(***************************************************************************)
(* The engine driven through Database and the document service: the inputs *)
(* of the calls, and one action per operation.                             *)
(***************************************************************************)
SName == Obj([name |-> Str("string")])
SNested == Obj([name |-> Str("String"), meta |-> Obj([k |-> Str("number")])])
SEmpty == Obj(EmptyMap)

\* (name, structure) arguments of add_collection
CollectionInputs == {<<"users", SName>>, <<"users", SNested>>,
                     <<"users", Str("string")>>, <<"", SName>>}
\* names given to remove_collection
Names == {"", "users", "Users"}
\* collection names given to the document operations
DocNames == {"users", "ghost"}
Payloads == {Obj([name |-> Str("Alice")]),
             Obj([name |-> Num(42)]),
             Obj([name |-> Str("Alice"), meta |-> Obj([k |-> Num(1)])]),
             Num(42)}
\* (field_name, field_value) arguments
Queries == {<<"name", Str("Alice")>>, <<"meta.k", Num(1)>>, <<"name", Num(1)>>}
TargetFields == {"name"}
PatchValues == {Num(42)}

Init ==
    /\ InitRest
    /\ db_path = DefaultPath
    /\ vdoc = EmptyMap
    /\ vschema = EmptyMap
    /\ vresult = "none"

\* a process that has aborted takes no further step
\* the process has not aborted and no call is in progress
Alive == call.res # "Panic" /\ ~inflight.active

Apply(o, c) ==
    /\ Alive
    /\ db' = o.db
    /\ call' = [c EXCEPT !.res = o.res]
    /\ logged' = o.log

Tick ==
    /\ Alive
    /\ now < MaxClock
    /\ now' = now + 1
    /\ call' = [op |-> "tick", res |-> "none"]
    /\ logged' = <<>>
    /\ UNCHANGED <<db, next_id, disk, proc, journal, peer, harness>>

AddCollection ==
    \E in \in CollectionInputs :
        /\ Apply(Database_add_collection(db, in[1], in[2], now),
                 [op |-> "add_collection", res |-> "none"])
        /\ UNCHANGED <<now, next_id, disk, proc, journal, peer, harness>>

RemoveCollection ==
    \E name \in Names :
        /\ Apply(Database_remove_collection(db, name),
                 [op |-> "remove_collection", res |-> "none"])
        /\ UNCHANGED <<now, next_id, disk, proc, journal, peer, harness>>

InsertDocument ==
    \E name \in DocNames, data \in Payloads :
        /\ next_id < MaxIds
        /\ Apply(insert_document(db, name, data, Uuid_new_v4(next_id + 1), now),
                 [op |-> "add_document", res |-> "none"])
        /\ next_id' = IF call'.res = "Ok" THEN next_id + 1 ELSE next_id
        /\ UNCHANGED <<now, disk, proc, journal, peer, harness>>

UpdateDocuments ==
    \E name \in DocNames, q \in Queries, data \in Payloads :
        /\ Apply(update_documents(db, name, q[1], q[2], data, now),
                 [op |-> "update_documents", res |-> "none"])
        /\ UNCHANGED <<now, next_id, disk, proc, journal, peer, harness>>

UpdateDocumentsField ==
    \E name \in DocNames, q \in Queries,
       target \in TargetFields, v \in PatchValues :
        /\ Apply(update_documents_field(db, name, q[1], q[2], target, v, now),
                 [op |-> "update_documents_field", res |-> "none"])
        /\ UNCHANGED <<now, next_id, disk, proc, journal, peer, harness>>

DeleteDocuments ==
    \E name \in DocNames, q \in Queries :
        /\ Apply(delete_documents(db, name, q[1], q[2]),
                 [op |-> "delete_documents", res |-> "none"])
        /\ UNCHANGED <<now, next_id, disk, proc, journal, peer, harness>>

Next ==
    \/ Tick
    \/ AddCollection
    \/ RemoveCollection
    \/ InsertDocument
    \/ UpdateDocuments
    \/ UpdateDocumentsField
    \/ DeleteDocuments

Spec == Init /\ [][Next]_vars

NextNoPatch ==
    \/ Tick
    \/ AddCollection
    \/ RemoveCollection
    \/ InsertDocument
    \/ UpdateDocuments
    \/ DeleteDocuments

SpecNoPatch == Init /\ [][NextNoPatch]_vars


(***************************************************************************)
(* The catalog alone: add_collection with every name and structure of a    *)
(* wider universe, and remove_collection.                                  *)
(***************************************************************************)
CatalogNames == {"", "users", "Users"}
CatalogStructures == {SName, SNested, SEmpty, Str("string")}

AddCollectionAny ==
    \E name \in CatalogNames, structure \in CatalogStructures :
        /\ Apply(Database_add_collection(db, name, structure, now),
                 [op |-> "add_collection", res |-> "none"])
        /\ UNCHANGED <<now, next_id, disk, proc, journal, peer, harness>>

NextCatalog ==
    \/ Tick
    \/ AddCollectionAny
    \/ RemoveCollection

SpecCatalog == Init /\ [][NextCatalog]_vars

(***************************************************************************)
(* C1.  Schema conformance of the stored documents.                        *)
(***************************************************************************)
Collections == {db[i] : i \in 1..Len(db)}
DocumentsOf(c) == {c.documents[i] : i \in 1..Len(c.documents)}

\* C1: without update_documents_field, every stored document is an object
\* that validates against the structure of the collection holding it.
C1_StoredDocumentsValidate ==
    \A c \in Collections : \A d \in DocumentsOf(c) :
        /\ is_object(c.structure)
        /\ is_object(d.data)
        /\ validate_against_structure(d.data.v, c.structure.v)

\* C1 witness: a successful update_documents replaced the data of a document
\* of a collection that holds two documents under a nested schema.
C1_Witness ==
    /\ call.op = "update_documents"
    /\ call.res = "Ok"
    /\ \E c \in Collections : c.structure = SNested /\ Len(c.documents) = 2

(***************************************************************************)
(* C2.  Uniqueness of collection names.                                    *)
(***************************************************************************)
NamesUnique ==
    \A i, j \in 1..Len(db) : db[i].name = db[j].name => i = j

DuplicateAddRejected ==
    \A name \in CatalogNames, structure \in CatalogStructures :
        (\E c \in Collections : c.name = name) =>
            LET o == Database_add_collection(db, name, structure, now) IN
            o.res = "CollectionAlreadyExists" /\ o.db = db

\* C2: no two collections share a name (exact comparison); an add_collection
\* with a taken name fails with CollectionAlreadyExists for every structure
\* argument and leaves the catalog as it was.
C2_CollectionNamesUnique ==
    /\ []NamesUnique
    /\ []DuplicateAddRejected
    /\ [][call'.op = "add_collection" /\ call'.res = "CollectionAlreadyExists"
            => db' = db]_vars

\* C2 witness: with "users" and "Users" both in the catalog, an add_collection
\* was refused as a duplicate.
C2_Witness ==
    /\ call.op = "add_collection"
    /\ call.res = "CollectionAlreadyExists"
    /\ {c.name : c \in Collections} = {"users", "Users"}

(***************************************************************************)
(* C9, C10.  add_document.                                                 *)
(***************************************************************************)
AllIds == {d.id : d \in UNION {DocumentsOf(c) : c \in Collections}}

AddDocumentAppends ==
    \A c \in Collections : \A data \in Payloads :
        (is_object(data) /\ is_object(c.structure)
            /\ validate_against_structure(data.v, c.structure.v)) =>
            LET o == Collection_add_document(c, data, Uuid_new_v4(next_id + 1), now)
                n == Len(c.documents)
            IN
            /\ o.res = "Ok"
            /\ Len(o.documents) = n + 1
            /\ SubSeq(o.documents, 1, n) = c.documents
            /\ o.documents[n + 1].data = data
            /\ o.documents[n + 1].id \notin AllIds

\* C9: a valid payload is appended as exactly one new document at the end;
\* the documents already stored keep their content and order, and an equal
\* payload inserted again is stored again under another id.
C9_AddDocumentAppends ==
    /\ []AddDocumentAppends
    /\ [][call'.op = "add_document" /\ call'.res = "Ok" =>
            \E i \in 1..Len(db) :
                /\ Len(db') = Len(db)
                /\ Len(db'[i].documents) = Len(db[i].documents) + 1
                /\ SubSeq(db'[i].documents, 1, Len(db[i].documents)) = db[i].documents
                /\ \A j \in 1..Len(db) : j # i => db'[j] = db[j]]_vars

\* C9 witness: the same payload was inserted twice and is stored twice, under
\* two ids.
C9_Witness ==
    /\ call.op = "add_document"
    /\ call.res = "Ok"
    /\ \E c \in Collections :
          /\ Len(c.documents) = 2
          /\ c.documents[1].data = c.documents[2].data
          /\ c.documents[1].id # c.documents[2].id

AddDocumentRejects ==
    \A c \in Collections : \A data \in Payloads :
        LET o == Collection_add_document(c, data, Uuid_new_v4(next_id + 1), now) IN
        /\ ~is_object(data) => o.res = "DocumentInvalid"
        /\ (is_object(data) /\ is_object(c.structure)
               /\ ~validate_against_structure(data.v, c.structure.v))
             => o.res = "DocumentInvalid"
        /\ o.res # "Ok" => o.documents = c.documents

\* C10: a payload that is not an object, or that does not validate, is
\* refused with DocumentInvalid, and a refused add_document leaves the
\* documents as they were.
C10_AddDocumentRejects ==
    /\ []AddDocumentRejects
    /\ [][call'.op = "add_document" /\ call'.res # "Ok" => db' = db]_vars

\* C10 witness: an add_document was refused with DocumentInvalid on a
\* collection that already holds a document.
C10_Witness ==
    /\ call.op = "add_document"
    /\ call.res = "DocumentInvalid"
    /\ \E c \in Collections : Len(c.documents) >= 1


(***************************************************************************)
(* The store file driven through File: a catalog is built through the API, *)
(* saved and loaded; between calls the store file may be given any content.*)
(***************************************************************************)
Keys == {"k1", "k2"}
Nonces == {"n1"}

WrongShape == [kind |-> "json", tree |-> Obj([collections |-> Num(1)])]
Garbage == [kind |-> "garbage", tree |-> Null]
NotUtf8 == [kind |-> "binary", tree |-> Null]

\* contents an existing store file may hold
Corruptions(f) ==
    {[kind |-> "text", bytes |-> NoBytes],
     [kind |-> "binary", bytes |-> NoBytes],
     base64_encode(NoBytes),
     base64_encode([NoBytes EXCEPT !.head = 5])}
    \cup {File_encrypt(pt, k, "n1").text :
              pt \in {WrongShape, Garbage, NotUtf8}, k \in Keys}
    \cup (IF f.exists /\ f.content.kind = "base64" /\ f.content.bytes.head = NonceLen
          THEN {[f.content EXCEPT !.bytes.ct.intact = FALSE],
                [f.content EXCEPT !.bytes.nonce = "n0"]}
          ELSE {})

Save ==
    \E raw \in Keys, nonce \in Nonces, w \in {"ok", "denied"} :
        LET s == File_save(file, keyfile, db, raw, nonce, w) IN
        /\ Alive
        /\ file' = s.file
        /\ keyfile' = s.keyfile
        /\ call' = [op |-> "save", res |-> s.res]
        /\ logged' = s.log
        /\ UNCHANGED <<db, now, next_id, proc, journal, peer, harness>>

Load ==
    \E raw \in Keys :
        LET l == File_load_or_create(file, keyfile, raw) IN
        /\ Alive
        /\ keyfile' = l.keyfile
        /\ call' = [op |-> "load_or_create", res |-> l.res, db |-> l.db]
        /\ logged' = l.log
        /\ UNCHANGED <<db, now, next_id, file, proc, journal, peer, harness>>

Corrupt ==
    /\ Alive
    /\ file.exists
    /\ \E c \in Corruptions(file) : file' = FileWith(c)
    /\ call' = [op |-> "corrupt", res |-> "none"]
    /\ logged' = <<>>
    /\ UNCHANGED <<db, now, next_id, keyfile, proc, journal, peer, harness>>

NextFile ==
    \/ Tick
    \/ AddCollection
    \/ InsertDocument
    \/ Save
    \/ Load
    \/ Corrupt

SpecFile == Init /\ [][NextFile]_vars


\* the key the key file holds
StoredKey(kf) == hex_decode(kf.content).bytes.id

\* the store file holds a whole blob File::encrypt produced for a catalog
WholeBlob(f) ==
    /\ f.content.kind = "base64"
    /\ f.content.bytes.head = NonceLen
    /\ f.content.bytes.ct.intact
    /\ f.content.bytes.ct.nonce = f.content.bytes.nonce
    /\ from_str(f.content.bytes.ct.pt).ok

SavedFileLoads ==
    (call.op = "save" /\ call.res = "Ok") =>
        /\ file.exists
        /\ \A raw \in Keys :
               LET l == File_load_or_create(file, keyfile, raw) IN
               l.res = "Ok" /\ l.db = db /\ l.keyfile = keyfile

LoadAfterSave ==
    (call.op = "save" /\ call.res = "Ok" /\ call'.op = "load_or_create") =>
        (call'.res = "Ok" /\ call'.db = db /\ keyfile' = keyfile /\ file' = file)

\* C5: File::save followed by File::load_or_create with the key file
\* unchanged returns a catalog equal to the saved one (collections and
\* documents in order, with their names, structures, ids, data and
\* timestamps); after several saves, the load returns the last one.
C5_SaveLoadRoundTrip == []SavedFileLoads /\ [][LoadAfterSave]_vars

C5_Witness ==
    /\ call.op = "load_or_create"
    /\ call.res = "Ok"
    /\ call.db = db
    /\ file.exists
    /\ \E i \in DOMAIN db :
           /\ Len(db[i].documents) >= 2
           /\ db[i].documents[1].data # db[i].documents[2].data
           /\ db[i].documents[2].created_at # db[i].created_at

\* what the stages of a load of an existing store file come to
LoadStage(f, key) ==
    IF f.content.kind = "binary" THEN "IoError"
    ELSE IF ~(/\ f.content.kind = "base64"
              /\ f.content.bytes.head = NonceLen
              /\ f.content.bytes.ct.intact
              /\ f.content.bytes.ct.key = key
              /\ f.content.bytes.ct.nonce = f.content.bytes.nonce
              /\ f.content.bytes.ct.pt.kind # "binary") THEN "EncryptionError"
    ELSE IF ~from_str(f.content.bytes.ct.pt).ok THEN "InvalidDatabaseFormat"
    ELSE "Ok"

LoadMapsErrors ==
    call'.op = "load_or_create" =>
        /\ file' = file
        /\ ~file.exists => (call'.res = "Ok" /\ call'.db = Database_new)
        /\ file.exists =>
               /\ call'.res = LoadStage(file, StoredKey(keyfile'))
               /\ call'.res # "Ok" => call'.db = <<>>
               /\ call'.res = "Ok" => call'.db = from_str(file.content.bytes.ct.pt).db

\* C6: File::load_or_create returns a new empty catalog only when no store
\* file exists; for an existing file a read failure gives IoError, a
\* decrypt failure EncryptionError, a parse failure InvalidDatabaseFormat,
\* no catalog is returned with the error and the store file is untouched.
C6_LoadMapsErrors == [][LoadMapsErrors]_vars

\* C8: for every content of an existing store file, File::load_or_create
\* returns a value (a catalog or a typed error); it never aborts the process.
C8_LoadNeverAborts == call.op = "load_or_create" => call.res # "Panic"

(***************************************************************************)
(* The facade: one Nosqlite instance over the store file.  Every mutation  *)
(* that succeeds in memory calls auto_save and drops what it returns.      *)
(***************************************************************************)
\* the service the facade's delete_document calls
delete_document(d, collection_name, id) ==
    LET index == position(d, collection_name) IN
    IF index = 0
    THEN DbFail(d, "CollectionNotFound")
    ELSE LET documents == d[index].documents
             kept == SelectSeq(documents, LAMBDA doc : doc.id # id)
         IN
         IF Len(kept) = Len(documents)
         THEN DbFail(d, "DocumentNotFound")
         ELSE DbOutcome([d EXCEPT ![index].documents = kept], "Ok", <<>>)

Nosqlite_auto_save(d, raw, nonce, w) == save_database(file, keyfile, d, raw, nonce, w)

\* result: what the service returned; the save's own result is dropped
Nosqlite_mutation(op, result, raw, nonce, w) ==
    LET saved == IF result.res = "Ok"
                 THEN Nosqlite_auto_save(result.db, raw, nonce, w)
                 ELSE SaveOutcome("none", file, keyfile, <<>>)
    IN
    /\ Alive
    /\ inst = "open"
    /\ db' = result.db
    /\ file' = saved.file
    /\ keyfile' = saved.keyfile
    /\ call' = [op |-> op, res |-> IF saved.res = "Panic" THEN "Panic" ELSE result.res]
    /\ logged' = result.log \o saved.log
    /\ UNCHANGED <<now, proc, journal, peer, harness>>

\* what the file system does to the write of an auto-save
FacadeWrites == {"ok", "denied", "in_ct"}
FacadeCollections == {<<"users", SName>>, <<"users", Str("string")>>}
FacadePayloads == {Obj([name |-> Str("Alice")]), Obj([name |-> Str("Bob")]),
                   Obj([name |-> Num(42)])}
FacadeQueries == {<<"name", Str("Alice")>>, <<"name", Num(1)>>}
FacadeIds == {Uuid_new_v4(1), "missing"}

Nosqlite_open ==
    \E raw \in Keys :
        LET l == File_load_or_create(file, keyfile, raw) IN
        /\ Alive
        /\ inst = "none"
        /\ inst' = IF l.res = "Ok" THEN "open" ELSE "none"
        /\ db' = IF l.res = "Ok" THEN l.db ELSE db
        /\ keyfile' = l.keyfile
        /\ call' = [op |-> "open", res |-> l.res]
        /\ logged' = l.log
        /\ UNCHANGED <<now, next_id, file, inflight, journal, peer, harness>>

\* the instance is dropped
Nosqlite_drop ==
    /\ Alive
    /\ inst = "open"
    /\ inst' = "none"
    /\ db' = Database_new
    /\ call' = [op |-> "drop", res |-> "none"]
    /\ logged' = <<>>
    /\ UNCHANGED <<now, next_id, disk, inflight, journal, peer, harness>>

Nosqlite_create_collection ==
    \E in \in FacadeCollections, raw \in Keys, nonce \in Nonces, w \in FacadeWrites :
        /\ Nosqlite_mutation("create_collection",
                             create_collection(db, in[1], in[2], now), raw, nonce, w)
        /\ UNCHANGED next_id

Nosqlite_delete_collection ==
    \E name \in DocNames, raw \in Keys, nonce \in Nonces, w \in FacadeWrites :
        /\ Nosqlite_mutation("delete_collection",
                             delete_collection(db, name), raw, nonce, w)
        /\ UNCHANGED next_id

Nosqlite_insert_document ==
    \E name \in DocNames, data \in FacadePayloads,
       raw \in Keys, nonce \in Nonces, w \in FacadeWrites :
        /\ next_id < MaxIds
        /\ Nosqlite_mutation("insert_document",
                             insert_document(db, name, data, Uuid_new_v4(next_id + 1), now),
                             raw, nonce, w)
        /\ next_id' = IF call'.res = "Ok" THEN next_id + 1 ELSE next_id

Nosqlite_update_documents ==
    \E name \in DocNames, q \in FacadeQueries, data \in FacadePayloads,
       raw \in Keys, nonce \in Nonces, w \in FacadeWrites :
        /\ Nosqlite_mutation("update_documents",
                             update_documents(db, name, q[1], q[2], data, now),
                             raw, nonce, w)
        /\ UNCHANGED next_id

Nosqlite_update_documents_field ==
    \E name \in DocNames, q \in FacadeQueries, target \in TargetFields,
       v \in PatchValues, raw \in Keys, nonce \in Nonces, w \in FacadeWrites :
        /\ Nosqlite_mutation("update_documents_field",
                             update_documents_field(db, name, q[1], q[2], target, v, now),
                             raw, nonce, w)
        /\ UNCHANGED next_id

Nosqlite_delete_document ==
    \E name \in DocNames, id \in FacadeIds,
       raw \in Keys, nonce \in Nonces, w \in FacadeWrites :
        /\ Nosqlite_mutation("delete_document",
                             delete_document(db, name, id), raw, nonce, w)
        /\ UNCHANGED next_id

NextFacade ==
    \/ Nosqlite_open
    \/ Nosqlite_drop
    \/ Nosqlite_create_collection
    \/ Nosqlite_delete_collection
    \/ Nosqlite_insert_document
    \/ Nosqlite_update_documents
    \/ Nosqlite_update_documents_field
    \/ Nosqlite_delete_document

SpecFacade == Init /\ [][NextFacade]_vars

FacadeMutations ==
    {"create_collection", "delete_collection", "insert_document",
     "update_documents", "update_documents_field", "delete_document"}

\* C4: after a facade mutation returns Ok, the store file has been rewritten
\* in full and decrypts and parses to the in-memory catalog, whatever the
\* serialize, encrypt and write steps of the save came to.
C4_OkMeansPersisted ==
    (call.op \in FacadeMutations /\ call.res = "Ok") =>
        /\ file.exists
        /\ WholeBlob(file)
        /\ \A raw \in Keys :
               LET l == File_load_or_create(file, keyfile, raw) IN
               l.res = "Ok" /\ l.db = db

(***************************************************************************)
(* File::save step by step: fs::write creates or truncates the store file, *)
(* then writes the blob; the process may stop between the steps.           *)
(***************************************************************************)
WritePoints == {"in_nonce", "in_ct"}

SaveBegin ==
    \E raw \in Keys, nonce \in Nonces :
        LET key == File_load_or_generate_key(keyfile, raw)
            encrypted == File_encrypt(to_string_pretty(db), key.key, nonce)
        IN
        /\ Alive
        /\ key.res = "Ok"
        /\ keyfile' = key.keyfile
        /\ file' = FileWith(Prefix(encrypted.text, "empty"))
        /\ inflight' = [active |-> TRUE, text |-> encrypted.text]
        /\ call' = [op |-> "save_begin", res |-> "none"]
        /\ logged' = <<>>
        /\ UNCHANGED <<db, now, next_id, inst, journal, peer, harness>>

SaveWrite ==
    \E cut \in WritePoints :
        /\ inflight.active
        /\ file' = FileWith(Prefix(inflight.text, cut))
        /\ call' = [op |-> "save_write", res |-> "none"]
        /\ UNCHANGED <<db, now, next_id, logged, keyfile, proc, journal, peer, harness>>

SaveFinish ==
    /\ inflight.active
    /\ file' = FileWith(inflight.text)
    /\ inflight' = NoWrite
    /\ call' = [op |-> "save", res |-> "Ok"]
    /\ UNCHANGED <<db, now, next_id, logged, keyfile, inst, journal, peer, harness>>

\* the process stops; the catalog in memory is gone, the files stay
Crash ==
    /\ inflight.active
    /\ inflight' = NoWrite
    /\ db' = Database_new
    /\ call' = [op |-> "crash", res |-> "none"]
    /\ logged' = <<>>
    /\ UNCHANGED <<now, next_id, disk, inst, journal, peer, harness>>

NextCrash ==
    \/ AddCollection
    \/ InsertDocument
    \/ SaveBegin
    \/ SaveWrite
    \/ SaveFinish
    \/ Crash

SpecCrash == Init /\ [][NextCrash]_vars

\* C7: at every instant, also when the process stops part-way through
\* File::save, the store file is absent or holds the complete ciphertext of
\* a saved catalog; it is never empty, truncated or mixed.
C7_StoreFileWhole == file.exists => WholeBlob(file)

(***************************************************************************)
(* C11, C12.  update_documents.                                            *)
(***************************************************************************)
\* the document's value at the dot-separated path field equals value
Matches(doc, field, value) ==
    LET found == get_nested_value(doc.data, field) IN
    found.some /\ found.v = value

\* the payload is one update_documents and add_document accept for c
Acceptable(c, data) ==
    /\ is_object(data)
    /\ is_object(c.structure) => validate_against_structure(data.v, c.structure.v)

UpdateReplaces ==
    \A c \in Collections : \A q \in Queries : \A data \in Payloads :
        LET o == Collection_update_documents(c, q[1], q[2], data, now) IN
        o.res = "Ok" =>
            /\ Len(o.documents) = Len(c.documents)
            /\ \A i \in 1..Len(c.documents) :
                   IF Matches(c.documents[i], q[1], q[2])
                   THEN /\ o.documents[i].data = data
                        /\ o.documents[i].updated_at = now
                        /\ o.documents[i].id = c.documents[i].id
                        /\ o.documents[i].created_at = c.documents[i].created_at
                   ELSE o.documents[i] = c.documents[i]

UpdateStepKeepsShape ==
    (call'.op = "update_documents" /\ call'.res = "Ok") =>
        /\ Len(db') = Len(db)
        /\ \A i \in 1..Len(db) :
               /\ db'[i].name = db[i].name
               /\ db'[i].structure = db[i].structure
               /\ Len(db'[i].documents) = Len(db[i].documents)
               /\ \A k \in 1..Len(db[i].documents) :
                      /\ db'[i].documents[k].id = db[i].documents[k].id
                      /\ db'[i].documents[k].created_at = db[i].documents[k].created_at
                      /\ \/ db'[i].documents[k] = db[i].documents[k]
                         \/ db'[i].documents[k].updated_at = now
        /\ \E q \in Queries, data \in Payloads, i \in 1..Len(db) :
               /\ \E k \in 1..Len(db[i].documents) : Matches(db[i].documents[k], q[1], q[2])
               /\ \A k \in 1..Len(db[i].documents) :
                      IF Matches(db[i].documents[k], q[1], q[2])
                      THEN db'[i].documents[k] =
                               [db[i].documents[k] EXCEPT !.data = data, !.updated_at = now]
                      ELSE db'[i].documents[k] = db[i].documents[k]

\* C11: a successful update_documents replaces the whole data of every
\* matching document with the payload and of no other; a replaced document
\* keeps its id, created_at and position and takes the time of the call as
\* updated_at; the number and order of documents do not change.
C11_UpdateReplacesMatches == []UpdateReplaces /\ [][UpdateStepKeepsShape]_vars

\* C11 witness: an update replaced the data of the first of two documents,
\* after its insertion time, and left the second, which did not match.
C11_Witness ==
    /\ call.op = "update_documents"
    /\ call.res = "Ok"
    /\ \E c \in Collections :
          /\ Len(c.documents) = 2
          /\ c.documents[1].updated_at # c.documents[1].created_at
          /\ c.documents[1].updated_at = now
          /\ c.documents[2].updated_at = c.documents[2].created_at
          /\ c.documents[1].data # c.documents[2].data
          /\ "meta" \notin DOMAIN c.documents[1].data.v
          /\ "meta" \in DOMAIN c.documents[2].data.v

NoMatch(c, q) == \A i \in 1..Len(c.documents) : ~Matches(c.documents[i], q[1], q[2])

UpdateNotFoundFirst ==
    \A c \in Collections : \A q \in Queries : \A data \in Payloads :
        LET o == Collection_update_documents(c, q[1], q[2], data, now) IN
        /\ NoMatch(c, q) => o.res = "DocumentNotFound"
        /\ o.res = "DocumentInvalid" => (~NoMatch(c, q) /\ ~Acceptable(c, data))
        /\ o.res # "Ok" => o.documents = c.documents

\* C12 as stated: update_documents fails with DocumentNotFound whenever no
\* document matches, also when the payload is not an object or does not
\* validate, and with DocumentInvalid only when some document matches; a
\* failed call leaves the collection unchanged.
C12_NotFoundBeforeInvalid == UpdateNotFoundFirst

UpdateInvalidFirst ==
    \A c \in Collections : \A q \in Queries : \A data \in Payloads :
        LET o == Collection_update_documents(c, q[1], q[2], data, now) IN
        /\ ~Acceptable(c, data) => o.res = "DocumentInvalid"
        /\ (Acceptable(c, data) /\ NoMatch(c, q)) => o.res = "DocumentNotFound"
        /\ o.res = "DocumentNotFound" => (Acceptable(c, data) /\ NoMatch(c, q))
        /\ o.res # "Ok" => o.documents = c.documents

\* C12 amended: update_documents fails with DocumentInvalid whenever the
\* payload is not an object or does not validate against an object schema,
\* whether or not a document matches, and with DocumentNotFound when the
\* payload is acceptable and no document matches; a failed call leaves the
\* collection unchanged.
C12_InvalidBeforeNotFound ==
    /\ []UpdateInvalidFirst
    /\ [][call'.op = "update_documents" /\ call'.res # "Ok" => db' = db]_vars

\* C12 witness: update_documents was refused with DocumentInvalid on a
\* collection without documents, where nothing can match.
C12_Witness ==
    /\ call.op = "update_documents"
    /\ call.res = "DocumentInvalid"
    /\ Len(db) = 1
    /\ db[1].documents = <<>>

(***************************************************************************)
(* C13.  update_documents_field, with target fields the documents have and *)
(* lack.                                                                   *)
(***************************************************************************)
PatchTargets == {"name", "age"}

UpdateDocumentsFieldAny ==
    \E name \in DocNames, q \in Queries,
       target \in PatchTargets, v \in PatchValues :
        /\ Apply(update_documents_field(db, name, q[1], q[2], target, v, now),
                 [op |-> "update_documents_field", res |-> "none"])
        /\ UNCHANGED <<now, next_id, disk, proc, journal, peer, harness>>

NextPatch ==
    \/ Tick
    \/ AddCollection
    \/ InsertDocument
    \/ UpdateDocumentsFieldAny

SpecPatch == Init /\ [][NextPatch]_vars

PatchSetsField ==
    \A c \in Collections : \A q \in Queries :
    \A target \in PatchTargets : \A v \in PatchValues :
        LET o == Collection_update_documents_field(c, q[1], q[2], target, v, now) IN
        /\ ~NoMatch(c, q) => o.res = "Ok"
        /\ o.res = "Ok" =>
            /\ Len(o.documents) = Len(c.documents)
            /\ \A i \in 1..Len(c.documents) :
                   IF Matches(c.documents[i], q[1], q[2])
                   THEN /\ is_object(o.documents[i].data)
                        /\ DOMAIN o.documents[i].data.v =
                               (DOMAIN c.documents[i].data.v) \cup {target}
                        /\ o.documents[i].data.v[target] = v
                        /\ \A key \in (DOMAIN c.documents[i].data.v) \ {target} :
                               o.documents[i].data.v[key] = c.documents[i].data.v[key]
                        /\ o.documents[i].updated_at = now
                        /\ o.documents[i].id = c.documents[i].id
                        /\ o.documents[i].created_at = c.documents[i].created_at
                   ELSE o.documents[i] = c.documents[i]

PatchStepKeepsShape ==
    (call'.op = "update_documents_field" /\ call'.res = "Ok") =>
        /\ Len(db') = Len(db)
        /\ \A i \in 1..Len(db) :
               /\ db'[i].name = db[i].name
               /\ db'[i].structure = db[i].structure
               /\ Len(db'[i].documents) = Len(db[i].documents)
               /\ \A k \in 1..Len(db[i].documents) :
                      /\ db'[i].documents[k].id = db[i].documents[k].id
                      /\ db'[i].documents[k].created_at = db[i].documents[k].created_at
                      /\ \/ db'[i].documents[k] = db[i].documents[k]
                         \/ db'[i].documents[k].updated_at = now

\* C13: a successful update_documents_field sets the top-level key
\* target_field to v in the data of every document that matched before the
\* call (inserting the key when absent), keeps their other keys, their ids
\* and created_at, refreshes their updated_at and leaves the other documents
\* alone; it succeeds whenever a document matches, whether or not the
\* patched document still validates against the structure.
C13_PatchSetsField == []PatchSetsField /\ [][PatchStepKeepsShape]_vars

\* C13 witness: one call patched the field the query matched on in both
\* matching documents; they now hold a number under "name", against the
\* structure, next to an "age" key an earlier patch inserted.
C13_Witness ==
    /\ call.op = "update_documents_field"
    /\ call.res = "Ok"
    /\ \E c \in Collections :
          /\ Len(c.documents) = 2
          /\ is_object(c.structure)
          /\ \A k \in 1..2 :
                /\ c.documents[k].data.v["name"] = Num(42)
                /\ "age" \in DOMAIN c.documents[k].data.v
                /\ c.documents[k].updated_at = now
                /\ c.documents[k].updated_at # c.documents[k].created_at
                /\ ~validate_against_structure(c.documents[k].data.v, c.structure.v)

(***************************************************************************)
(* C14, C15.  delete_documents.                                            *)
(***************************************************************************)
\* the documents that do not match, in their order
Unmatched(documents, q) ==
    SelectSeq(documents, LAMBDA doc : ~Matches(doc, q[1], q[2]))

DeleteRemovesMatches ==
    \A c \in Collections : \A q \in Queries :
        LET o == Collection_delete_documents(c, q[1], q[2])
            after == [c EXCEPT !.documents = o.documents]
        IN
        o.res = "Ok" =>
            /\ ~NoMatch(c, q)
            /\ NoMatch(after, q)
            /\ Collection_get_document(after, q[1], q[2]) = None
            /\ o.documents = Unmatched(c.documents, q)

DeleteStepRemovesMatches ==
    (call'.op = "delete_documents" /\ call'.res = "Ok") =>
        /\ Len(db') = Len(db)
        /\ \E i \in 1..Len(db) : \E q \in Queries :
               /\ ~NoMatch(db[i], q)
               /\ db' = [db EXCEPT ![i].documents = Unmatched(db[i].documents, q)]

\* C14: a successful delete_documents removes every document whose value at
\* the field path equals the value and no other: afterwards no stored
\* document matches and get_document finds nothing, and the documents that
\* did not match, those lacking the field included, remain unchanged in
\* their order.
C14_DeleteRemovesMatches == []DeleteRemovesMatches /\ [][DeleteStepRemovesMatches]_vars

\* C14 witness: of two inserted documents a delete left one, which holds
\* name "Alice" and lacks the "meta" field the deleted one was matched on
\* (a delete on the name would have removed it too).
C14_Witness ==
    /\ call.op = "delete_documents"
    /\ call.res = "Ok"
    /\ next_id = 2
    /\ \E c \in Collections :
          /\ Len(c.documents) = 1
          /\ c.documents[1].data.v["name"] = Str("Alice")
          /\ "meta" \notin DOMAIN c.documents[1].data.v

DeleteNoMatchFails ==
    \A c \in Collections : \A q \in Queries :
        LET o == Collection_delete_documents(c, q[1], q[2]) IN
        NoMatch(c, q) => (o.res = "DocumentNotFound" /\ o.documents = c.documents)

\* C15: delete_documents on a (field, value) no document matches fails with
\* DocumentNotFound and leaves the collection as it was: the same documents
\* with the same ids, data, timestamps and order.
C15_DeleteNoMatchFails ==
    /\ []DeleteNoMatchFails
    /\ [][call'.op = "delete_documents" /\ call'.res # "Ok" => db' = db]_vars

\* C15 witness: a delete_documents failed with DocumentNotFound on a
\* collection holding two documents.
C15_Witness ==
    /\ call.op = "delete_documents"
    /\ call.res = "DocumentNotFound"
    /\ \E c \in Collections : Len(c.documents) = 2

(***************************************************************************)
(* The read services: get_document and get_documents with matches_filter   *)
(* and apply_projection.  A read yields the result, what it returns and    *)
(* the errors handed to the handler.                                       *)
(***************************************************************************)
ReadOutcome(res, docs, log) == [res |-> res, docs |-> docs, log |-> log]

get_document(d, collection_name, field_name, field_value) ==
    LET collection == Database_get_collection(d, collection_name) IN
    IF ~collection.some
    THEN ReadOutcome("CollectionNotFound", <<>>, <<"CollectionNotFound">>)
    ELSE LET found == Collection_get_document(collection.v, field_name, field_value) IN
         IF ~found.some
         THEN ReadOutcome("DocumentNotFound", <<>>, <<"DocumentNotFound">>)
         ELSE ReadOutcome("Ok", <<found.v>>, <<>>)

matches_filter_any_pair(doc, filter) ==
    IF is_object(doc) /\ is_object(filter)
    THEN \/ DOMAIN filter.v = {}
         \/ \E key \in DOMAIN filter.v :
                key \in DOMAIN doc.v /\ doc.v[key] = filter.v[key]
    ELSE TRUE

matches_filter(doc, filter) ==
    IF is_object(doc) /\ is_object(filter)
    THEN \A key \in DOMAIN filter.v :
             key \in DOMAIN doc.v /\ doc.v[key] = filter.v[key]
    ELSE TRUE

apply_projection_no_empty_case(doc, projection) ==
    IF is_object(doc) /\ is_object(projection)
    THEN Obj([key \in {k \in DOMAIN projection.v :
                            projection.v[k] = Num(1) /\ k \in DOMAIN doc.v}
                  |-> doc.v[key]])
    ELSE doc

apply_projection(doc, projection) ==
    IF is_object(doc) /\ is_object(projection)
    THEN IF DOMAIN projection.v = {}
         THEN Obj(doc.v)
         ELSE Obj([key \in {k \in DOMAIN projection.v :
                                 projection.v[k] = Num(1) /\ k \in DOMAIN doc.v}
                       |-> doc.v[key]])
    ELSE doc

Collection_all_documents(self) == self.documents

get_documents(d, collection_name, filter, projection) ==
    LET collection == Database_get_collection(d, collection_name) IN
    IF ~collection.some
    THEN ReadOutcome("CollectionNotFound", <<>>, <<"CollectionNotFound">>)
    ELSE LET docs == Collection_all_documents(collection.v)
             kept == SelectSeq(docs, LAMBDA doc : matches_filter(doc.data, filter))
         IN ReadOutcome("Ok",
                        [i \in 1..Len(kept) |-> apply_projection(kept[i].data, projection)],
                        <<>>)

FindFilters == {Obj(EmptyMap),
                Obj([name |-> Str("Alice")]),
                Obj([name |-> Str("Alice"), meta |-> Obj([k |-> Num(1)])]),
                Obj([age |-> Num(1)])}
FindProjections == {Obj(EmptyMap),
                    Obj([name |-> Num(1)]),
                    Obj([name |-> Num(1), meta |-> Num(0)]),
                    Obj([age |-> Num(1)])}

\* a read: the catalog is borrowed immutably
Read(o, op) ==
    /\ Alive
    /\ call' = [op |-> op, res |-> o.res, docs |-> o.docs]
    /\ logged' = o.log

GetDocument ==
    \E name \in DocNames, q \in Queries :
        /\ Read(get_document(db, name, q[1], q[2]), "get_document")
        /\ UNCHANGED <<db, now, next_id, disk, proc, journal, peer, harness>>

GetDocuments ==
    \E name \in DocNames, filter \in FindFilters, projection \in FindProjections :
        /\ Read(get_documents(db, name, filter, projection), "get_documents")
        /\ UNCHANGED <<db, now, next_id, disk, proc, journal, peer, harness>>

NextFind ==
    \/ AddCollection
    \/ InsertDocument
    \/ DeleteDocuments
    \/ GetDocument
    \/ GetDocuments

SpecFind == Init /\ [][NextFind]_vars

(***************************************************************************)
(* C16.  get_document: the first match.                                    *)
(***************************************************************************)
\* position i holds the first document of c that matches q
FirstMatch(c, q, i) ==
    /\ i \in 1..Len(c.documents)
    /\ Matches(c.documents[i], q[1], q[2])
    /\ \A j \in 1..(i - 1) : ~Matches(c.documents[j], q[1], q[2])

GetDocumentFirstMatch ==
    \A c \in Collections : \A q \in Queries :
        LET found == Collection_get_document(c, q[1], q[2])
            m == {i \in 1..Len(c.documents) : Matches(c.documents[i], q[1], q[2])}
            deleted == Collection_delete_documents(c, q[1], q[2])
        IN
        /\ NoMatch(c, q) => ~found.some
        /\ ~NoMatch(c, q) =>
               /\ found.some
               /\ \E i \in m : FirstMatch(c, q, i) /\ found.v = c.documents[i]
               /\ Len(deleted.documents) = Len(c.documents) - Cardinality(m)
               /\ \A target \in TargetFields, v \in PatchValues :
                      LET o == Collection_update_documents_field(c, q[1], q[2], target, v, now)
                      IN \A i \in m : o.documents[i].data.v[target] = v
               /\ \A data \in Payloads :
                      LET o == Collection_update_documents(c, q[1], q[2], data, now) IN
                      o.res = "Ok" => \A i \in m : o.documents[i].data = data

GetDocumentStep ==
    call'.op = "get_document" =>
        /\ db' = db
        /\ call'.res = "Ok" =>
               \E c \in Collections : \E q \in Queries : \E i \in 1..Len(c.documents) :
                   FirstMatch(c, q, i) /\ call'.docs = <<c.documents[i]>>
        /\ call'.res = "DocumentNotFound" =>
               \E c \in Collections : \E q \in Queries : NoMatch(c, q)

\* C16: get_document returns the matching document of the earliest position
\* and nothing when no document matches, while update_documents,
\* update_documents_field and delete_documents act on every match; the call
\* does not modify the collection.
C16_GetDocumentFirstMatch == []GetDocumentFirstMatch /\ [][GetDocumentStep]_vars

\* C16 witness: two documents hold name "Alice", only the second has "meta";
\* get_document returned the first, so the query was on the name both match.
C16_Witness ==
    /\ call.op = "get_document"
    /\ call.res = "Ok"
    /\ \E c \in Collections :
          /\ Len(c.documents) = 2
          /\ call.docs = <<c.documents[1]>>
          /\ c.documents[1].data = Obj([name |-> Str("Alice")])
          /\ c.documents[2].data.v["name"] = Str("Alice")
          /\ "meta" \in DOMAIN c.documents[2].data.v

(***************************************************************************)
(* C17, C18.  get_documents.                                               *)
(***************************************************************************)
\* every (key, value) pair of the filter is a top-level field of the data
FilterHolds(data, filter) ==
    \A k \in DOMAIN filter.v : k \in DOMAIN data.v /\ data.v[k] = filter.v[k]

\* entry is what the projection lets through of data
Projected(entry, data, projection) ==
    IF DOMAIN projection.v = {}
    THEN entry = data
    ELSE /\ is_object(entry)
         /\ DOMAIN entry.v = {k \in DOMAIN data.v :
                                  k \in DOMAIN projection.v /\ projection.v[k] = Num(1)}
         /\ \A k \in DOMAIN entry.v : entry.v[k] = data.v[k]

FindReturnsMatches ==
    \A c \in Collections : \A filter \in FindFilters : \A projection \in FindProjections :
        LET r == get_documents(db, c.name, filter, projection)
            idx == {i \in 1..Len(c.documents) : FilterHolds(c.documents[i].data, filter)}
            nth(n) == CHOOSE i \in idx : Cardinality({j \in idx : j <= i}) = n
        IN
        /\ r.res = "Ok"
        /\ Len(r.docs) = Cardinality(idx)
        /\ \A n \in 1..Len(r.docs) :
               Projected(r.docs[n], c.documents[nth(n)].data, projection)

\* C17: get_documents returns, in insertion order, one entry per document
\* whose top-level fields equal every pair of the filter (all documents for
\* the empty filter); an entry is the full data under the empty projection
\* and else exactly the document's fields the projection flags with 1; the
\* call changes neither the catalog nor a document.
C17_FindReturnsMatches ==
    /\ []FindReturnsMatches
    /\ [][call'.op = "get_documents" => db' = db]_vars

\* C17 witness: of two documents named "Alice" a find returned one entry
\* holding only the name: the filter selected on "meta" and the projection
\* kept "name".
C17_Witness ==
    /\ call.op = "get_documents"
    /\ call.res = "Ok"
    /\ call.docs = <<Obj([name |-> Str("Alice")])>>
    /\ \E c \in Collections :
          /\ Len(c.documents) = 2
          /\ c.documents[1].data = Obj([name |-> Str("Alice")])
          /\ c.documents[2].data = Obj([name |-> Str("Alice"), meta |-> Obj([k |-> Num(1)])])

\* the equality filters made of top-level fields of the payload
SubFilters(data) == {Obj(Restrict(data.v, ks)) : ks \in SUBSET DOMAIN data.v}

Contains(docs, data) == \E n \in 1..Len(docs) : docs[n] = data

StoredIsFound ==
    \A c \in Collections : \A d \in DocumentsOf(c) : \A filter \in SubFilters(d.data) :
        LET r == get_documents(db, c.name, filter, Obj(EmptyMap)) IN
        r.res = "Ok" /\ Contains(r.docs, d.data)

InsertedIsFound ==
    (call'.op = "add_document" /\ call'.res = "Ok") =>
        \A name \in DocNames : \A data \in Payloads :
            LET o == insert_document(db, name, data, Uuid_new_v4(next_id + 1), now) IN
            (o.res = "Ok" /\ o.db = db') =>
                \A filter \in SubFilters(data) :
                    LET r == get_documents(db', name, filter, Obj(EmptyMap)) IN
                    r.res = "Ok" /\ Contains(r.docs, data)

\* C18: after a successful insert of an object payload P, a find on the
\* collection with any equality filter made of top-level fields of P and
\* the empty projection returns a set that contains a payload equal to P.
C18_InsertedIsFound == []StoredIsFound /\ [][InsertedIsFound]_vars

\* C18 witness: after a second document with two top-level fields was
\* inserted, a find returned it alone, equal to the payload.
C18_Witness ==
    /\ call.op = "get_documents"
    /\ call.res = "Ok"
    /\ call.docs = <<Obj([name |-> Str("Alice"), meta |-> Obj([k |-> Num(1)])])>>
    /\ next_id = 2
    /\ \E c \in Collections :
          /\ Len(c.documents) = 2
          /\ c.documents[2].data = call.docs[1]
          /\ c.documents[1].data # call.docs[1]

(***************************************************************************)
(* C19.  add_collection.                                                   *)
(***************************************************************************)
Unused(name) == \A c \in Collections : c.name # name

AddCollectionCases ==
    \A name \in CatalogNames : \A structure \in CatalogStructures :
        LET o == Database_add_collection(db, name, structure, now) IN
        /\ name = "" => (o.res = "CollectionNameEmpty" /\ o.db = db)
        /\ (name # "" /\ Unused(name) /\ ~is_object(structure)) =>
               (o.res = "DocumentInvalid" /\ o.db = db)
        /\ (name # "" /\ Unused(name) /\ is_object(structure)) =>
               /\ o.res = "Ok"
               /\ Len(o.db) = Len(db) + 1
               /\ SubSeq(o.db, 1, Len(db)) = db
               /\ o.db[Len(db) + 1].name = name
               /\ o.db[Len(db) + 1].structure = structure
               /\ o.db[Len(db) + 1].documents = <<>>

AddCollectionStep ==
    call'.op = "add_collection" =>
        IF call'.res = "Ok"
        THEN /\ Len(db') = Len(db) + 1
             /\ SubSeq(db', 1, Len(db)) = db
             /\ db'[Len(db') ].documents = <<>>
             /\ db'[Len(db')].name # ""
             /\ is_object(db'[Len(db')].structure)
             /\ Unused(db'[Len(db')].name)
        ELSE db' = db

NextDrop ==
    \/ AddCollectionAny
    \/ InsertDocument
    \/ RemoveCollection

SpecDrop == Init /\ [][NextDrop]_vars

RemoveCollectionCases ==
    \A name \in Names :
        LET o == Database_remove_collection(db, name) IN
        IF Unused(name)
        THEN o.res = "CollectionNotFound" /\ o.db = db
        ELSE /\ o.res = "Ok"
             /\ o.db = SelectSeq(db, LAMBDA c : c.name # name)
             /\ Len(o.db) = Len(db) - 1
             /\ ~Database_get_collection(o.db, name).some
             /\ \A structure \in CatalogStructures :
                    is_object(structure) =>
                        LET a == Database_add_collection(o.db, name, structure, now) IN
                        /\ a.res = "Ok"
                        /\ Database_get_collection(a.db, name).some
                        /\ Database_get_collection(a.db, name).v.documents = <<>>

RemoveCollectionStep ==
    /\ call'.op = "remove_collection" =>
           IF call'.res = "Ok"
           THEN \E i \in 1..Len(db) :
                    /\ db' = remove_at(db, i)
                    /\ ~Database_get_collection(db', db[i].name).some
           ELSE db' = db
    /\ \A name \in Names :
           (~Database_get_collection(db, name).some
                /\ Database_get_collection(db', name).some) =>
               /\ call'.op = "add_collection"
               /\ call'.res = "Ok"
               /\ Database_get_collection(db', name).v.documents = <<>>

\* C20: remove_collection fails with CollectionNotFound, the catalog
\* unchanged, when no collection has the name; otherwise it removes that
\* collection with its documents and leaves the others unchanged in their
\* order; get_collection(name) then finds nothing until an add_collection of
\* the name succeeds, which yields a collection without documents.
C20_RemoveCollectionCases == []RemoveCollectionCases /\ [][RemoveCollectionStep]_vars

\* C20 witness: the collection "users", the only one documents were inserted
\* into, was removed from in front of "Users", which remains.
C20_Witness ==
    /\ call.op = "remove_collection"
    /\ call.res = "Ok"
    /\ next_id = 2
    /\ Len(db) = 1
    /\ db[1].name = "Users"
    /\ db[1].documents = <<>>

(***************************************************************************)
(* C21.  The document services on a collection name the catalog does not   *)
(* hold.                                                                   *)
(***************************************************************************)
\* the mutable lookup: the same search as get_collection, on iter_mut()
Database_get_collection_mut(self, name) ==
    LET index == position(self, name) IN
    IF index = 0 THEN None ELSE Some(self[index])

get_all_documents_empty_when_missing(d, collection_name) ==
    LET collection == Database_get_collection(d, collection_name) IN
    IF ~collection.some
    THEN ReadOutcome("Ok", <<>>, <<>>)
    ELSE ReadOutcome("Ok", Collection_all_documents(collection.v), <<>>)

get_all_documents(d, collection_name) ==
    LET collection == Database_get_collection(d, collection_name) IN
    IF ~collection.some
    THEN ReadOutcome("CollectionNotFound", <<>>, <<"CollectionNotFound">>)
    ELSE ReadOutcome("Ok", Collection_all_documents(collection.v), <<>>)

GetAllDocuments ==
    \E name \in DocNames :
        /\ Read(get_all_documents(db, name), "get_all_documents")
        /\ UNCHANGED <<db, now, next_id, disk, proc, journal, peer, harness>>

NextServices ==
    \/ AddCollection
    \/ RemoveCollection
    \/ InsertDocument
    \/ UpdateDocuments
    \/ UpdateDocumentsField
    \/ DeleteDocuments
    \/ GetDocument
    \/ GetAllDocuments
    \/ GetDocuments

SpecServices == Init /\ [][NextServices]_vars

ServiceNames == DocNames \cup Names

\* a mutating service failed on the missing collection and kept the catalog
MutationNotFound(o) ==
    /\ o.res = "CollectionNotFound"
    /\ o.db = db
    /\ o.log = <<"CollectionNotFound">>

\* a reading service failed on the missing collection and returned nothing
ReadNotFound(o) ==
    /\ o.res = "CollectionNotFound"
    /\ o.docs = <<>>
    /\ o.log = <<"CollectionNotFound">>

MissingCollectionFails ==
    \A name \in ServiceNames :
        Unused(name) =>
            /\ ~Database_get_collection(db, name).some
            /\ ~Database_get_collection_mut(db, name).some
            /\ \A data \in Payloads :
                   MutationNotFound(insert_document(db, name, data,
                                                    Uuid_new_v4(next_id + 1), now))
            /\ \A q \in Queries :
                   /\ \A data \in Payloads :
                          MutationNotFound(update_documents(db, name, q[1], q[2], data, now))
                   /\ \A target \in PatchTargets : \A v \in PatchValues :
                          MutationNotFound(update_documents_field(db, name, q[1], q[2],
                                                                  target, v, now))
                   /\ MutationNotFound(delete_documents(db, name, q[1], q[2]))
                   /\ ReadNotFound(get_document(db, name, q[1], q[2]))
            /\ ReadNotFound(get_all_documents(db, name))
            /\ \A filter \in FindFilters : \A projection \in FindProjections :
                   ReadNotFound(get_documents(db, name, filter, projection))

DocumentServices == {"add_document", "update_documents", "update_documents_field",
                     "delete_documents", "get_document", "get_all_documents",
                     "get_documents"}

MissingCollectionStep ==
    (call'.op \in DocumentServices /\ call'.res = "CollectionNotFound") =>
        /\ db' = db
        /\ logged' = <<"CollectionNotFound">>
        /\ \E name \in ServiceNames : Unused(name)

\* C21: each document service (insert_document, update_documents,
\* update_documents_field, delete_documents, get_document, get_all_documents,
\* get_documents) called with a collection name that is not in the catalog
\* fails with CollectionNotFound and leaves the whole catalog unchanged; the
\* plain get_collection / get_collection_mut lookup of such a name finds
\* nothing and hands no error to the handler.
C21_MissingCollectionFails == []MissingCollectionFails /\ [][MissingCollectionStep]_vars

\* C21 witness: get_all_documents failed on the missing "ghost" while the
\* catalog holds "users" with a stored document.
C21_Witness ==
    /\ call.op = "get_all_documents"
    /\ call.res = "CollectionNotFound"
    /\ logged = <<"CollectionNotFound">>
    /\ Len(db) = 1
    /\ db[1].name = "users"
    /\ Len(db[1].documents) = 1

(***************************************************************************)
(* C22.  encrypt and decrypt on one blob: sealed by encrypt, altered in    *)
(* place, opened by decrypt.  The blob is held in `file`; `call.sealed`    *)
(* keeps the blob as encrypt produced it, with its key and plaintext.      *)
(***************************************************************************)
CryptoNonces == {"n1", "n2"}
Plaintexts == {to_string_pretty(Database_new),
               to_string_pretty(<<Collection_new("users", SName, 0)>>),
               Garbage}
Alterations == {"nonce", "ciphertext", "tag"}

Encrypt ==
    \E data \in Plaintexts, key \in Keys, nonce \in CryptoNonces :
        LET o == File_encrypt(data, key, nonce) IN
        /\ Alive
        /\ file' = FileWith(o.text)
        /\ call' = [op |-> "encrypt", res |-> o.res, key |-> key,
                    sealed |-> [key |-> key, data |-> data, blob |-> o.text]]
        /\ logged' = o.log
        /\ UNCHANGED <<db, now, next_id, keyfile, proc, journal, peer, harness>>

\* bytes of the blob are overwritten in place: the 12 bytes of the nonce, or
\* bytes of the ciphertext or of its tag
Alter ==
    \E part \in Alterations :
        /\ Alive
        /\ file.exists
        /\ file.content.kind = "base64"
        /\ IF part = "nonce"
           THEN \E nonce \in CryptoNonces \ {file.content.bytes.nonce} :
                    file' = FileWith(base64_encode(
                                [file.content.bytes EXCEPT !.nonce = nonce]))
           ELSE /\ file.content.bytes.ct.intact
                /\ file' = FileWith(base64_encode(
                               [file.content.bytes EXCEPT !.ct.intact = FALSE]))
        /\ call' = [call EXCEPT !.op = "alter", !.res = part]
        /\ logged' = <<>>
        /\ UNCHANGED <<db, now, next_id, keyfile, proc, journal, peer, harness>>

Decrypt ==
    \E key \in Keys :
        LET o == File_decrypt(file.content, key) IN
        /\ Alive
        /\ file.exists
        /\ call' = [op |-> "decrypt", res |-> o.res, key |-> key, text |-> o.text,
                    sealed |-> call.sealed]
        /\ logged' = o.log
        /\ UNCHANGED <<db, now, next_id, disk, proc, journal, peer, harness>>

NextCrypto ==
    \/ Encrypt
    \/ Alter
    \/ Decrypt

SpecCrypto == Init /\ [][NextCrypto]_vars

DecryptErrors == {"Base64DecodeError", "EncryptionError", "DeserializationError"}

RoundTrip ==
    \A data \in Plaintexts : \A key \in Keys : \A nonce \in CryptoNonces :
        LET o == File_decrypt(File_encrypt(data, key, nonce).text, key) IN
        o.res = "Ok" /\ o.text = data

DecryptOpensOnlySealed ==
    call.op = "decrypt" =>
        IF call.key = call.sealed.key /\ file.content = call.sealed.blob
        THEN call.res = "Ok" /\ call.text = call.sealed.data
        ELSE call.res \in DecryptErrors /\ call.text = NoText

\* C22: for every plaintext P and key K, decrypt(encrypt(P, K), K) returns
\* P; decrypt of a blob with a key other than the one it was encrypted with,
\* or of a blob whose nonce, ciphertext or tag was altered, returns an error
\* and no plaintext.
C22_DecryptOpensOnlySealed == RoundTrip /\ DecryptOpensOnlySealed

\* C22 witness: a blob whose nonce was altered was refused under the key it
\* was encrypted with.
C22_Witness ==
    /\ call.op = "decrypt"
    /\ call.res = "EncryptionError"
    /\ call.key = call.sealed.key
    /\ file.content.bytes.nonce # call.sealed.blob.bytes.nonce
    /\ file.content.bytes.ct.intact
    /\ call.sealed.data = to_string_pretty(<<Collection_new("users", SName, 0)>>)

(***************************************************************************)
(* C23.  load_or_generate_key over the life of one key file.  `call`       *)
(* keeps the key the last generation issued and whether the key file was   *)
(* deleted or edited since.                                                *)
(***************************************************************************)
RawKeys == {"k1", "k2", "k3"}

\* contents an edit may leave in the key file
KeyFileContents ==
    {hex_encode(KeyBytes(k)) : k \in RawKeys}
    \cup {hex_encode([KeyBytes("k1") EXCEPT !.len = 16]),
          hex_encode([KeyBytes("k1") EXCEPT !.len = 40]),
          [kind |-> "text", bytes |-> NoBytes],
          [kind |-> "binary", bytes |-> NoBytes]}

LoadOrGenerateKey ==
    \E raw \in RawKeys :
        LET o == File_load_or_generate_key(keyfile, raw) IN
        /\ Alive
        /\ keyfile' = o.keyfile
        /\ call' = [op |-> "load_or_generate_key", res |-> o.res, key |-> o.key,
                    generated |-> ~keyfile.exists,
                    issued |-> IF keyfile.exists THEN call.issued ELSE o.key,
                    touched |-> IF keyfile.exists THEN call.touched ELSE FALSE]
        /\ logged' = o.log
        /\ UNCHANGED <<db, now, next_id, file, proc, journal, peer, harness>>

DeleteKeyFile ==
    /\ Alive
    /\ keyfile.exists
    /\ keyfile' = NoFile
    /\ call' = [call EXCEPT !.op = "delete_key_file", !.res = "none", !.touched = TRUE]
    /\ logged' = <<>>
    /\ UNCHANGED <<db, now, next_id, file, proc, journal, peer, harness>>

EditKeyFile ==
    \E content \in KeyFileContents \ {keyfile.content} :
        /\ Alive
        /\ keyfile.exists
        /\ keyfile' = FileWith(content)
        /\ call' = [call EXCEPT !.op = "edit_key_file", !.res = "none", !.touched = TRUE]
        /\ logged' = <<>>
        /\ UNCHANGED <<db, now, next_id, file, proc, journal, peer, harness>>

NextKey ==
    \/ LoadOrGenerateKey
    \/ DeleteKeyFile
    \/ EditKeyFile

SpecKey == Init /\ [][NextKey]_vars

KeyStable ==
    (call.op = "load_or_generate_key" /\ ~call.touched) =>
        /\ call.res = "Ok"
        /\ call.key = call.issued
        /\ keyfile = FileWith(hex_encode(KeyBytes(call.issued)))

KeyStep ==
    call'.op = "load_or_generate_key" =>
        /\ keyfile.exists => keyfile' = keyfile
        /\ call'.generated <=> ~keyfile.exists
        /\ (~keyfile.exists /\ call'.res = "Ok") =>
               keyfile' = FileWith(hex_encode(KeyBytes(call'.key)))

\* C23: once load_or_generate_key has generated a key and written the key
\* file, every later call, as long as the key file was neither deleted nor
\* edited, returns that same key of 32 bytes and leaves the key file as it
\* is; a key is generated only when no key file exists.
C23_KeyStable == []KeyStable /\ [][KeyStep]_vars

\* C23 witness: a call that found the untouched key file of an earlier
\* generation returned the key that generation issued.
C23_Witness ==
    /\ call.op = "load_or_generate_key"
    /\ ~call.generated
    /\ ~call.touched
    /\ call.res = "Ok"
    /\ call.key = "k2"
    /\ StoredKey(keyfile) = "k2"

(***************************************************************************)
(* NosqliteErrorHandler: log_error appends a line to the log file          *)
(* (persist_error), then pushes the error on `errors`.  `lw` is what the   *)
(* file system does to the append: "ok"; "failed" (write_all fails, its    *)
(* result is dropped); "no_open" (the log file cannot be opened, the       *)
(* process aborts).                                                        *)
(***************************************************************************)
MaxErrors == 2

LogWrites == {"ok", "failed", "no_open"}

persist_error(lf, error, lw) ==
    CASE lw = "no_open" -> [ok |-> FALSE, logfile |-> lf]
      [] lw = "failed" -> [ok |-> TRUE, logfile |-> lf]
      [] OTHER -> [ok |-> TRUE, logfile |-> Append(lf, error)]

log_error(h, error, lw) ==
    LET persisted == persist_error(h.logfile, error, lw) IN
    IF ~persisted.ok
    THEN [h EXCEPT !.res = "Panic"]
    ELSE [errors |-> Append(h.errors, error), logfile |-> persisted.logfile, res |-> "Ok"]

all_errors(h) == h.errors

\* the log_error calls of one operation, in order; an abort ends them
RECURSIVE log_each(_, _, _)
log_each(h, log, lw) ==
    IF log = <<>> \/ h.res = "Panic"
    THEN h
    ELSE log_each(log_error(h, Head(log), lw), Tail(log), lw)

\* an operation with outcome o run against the handler
handled(o, lw) ==
    LET h == log_each([errors |-> errors, logfile |-> logfile, res |-> "Ok"], o.log, lw)
    IN [h EXCEPT !.res = IF h.res = "Panic" THEN "Panic" ELSE o.res]

Journal(h) ==
    /\ Alive
    /\ Len(errors) < MaxErrors
    /\ errors' = h.errors
    /\ logfile' = h.logfile
    /\ UNCHANGED db_path
    /\ logged' = SubSeq(h.errors, Len(errors) + 1, Len(h.errors))

HandledAddCollection ==
    \E in \in CollectionInputs, lw \in LogWrites :
        LET o == Database_add_collection(db, in[1], in[2], now)
            h == handled(o, lw)
        IN
        /\ Journal(h)
        /\ db' = o.db
        /\ call' = [op |-> "add_collection", res |-> h.res]
        /\ UNCHANGED <<now, next_id, disk, proc, peer, harness>>

HandledSave ==
    \E raw \in {"k1"}, nonce \in Nonces, w \in {"ok", "denied"}, lw \in LogWrites :
        LET s == File_save(file, keyfile, db, raw, nonce, w)
            h == handled(s, lw)
        IN
        /\ Journal(h)
        /\ file' = s.file
        /\ keyfile' = s.keyfile
        /\ call' = [op |-> "save", res |-> h.res]
        /\ UNCHANGED <<db, now, next_id, proc, peer, harness>>

HandledLoad ==
    \E raw \in {"k1"}, lw \in LogWrites :
        LET l == File_load_or_create(file, keyfile, raw)
            h == handled(l, lw)
        IN
        /\ Journal(h)
        /\ keyfile' = l.keyfile
        /\ call' = [op |-> "load_or_create", res |-> h.res, db |-> l.db]
        /\ UNCHANGED <<db, now, next_id, file, proc, peer, harness>>

\* database_service, with the handler of the caller
HandledSaveDatabase ==
    \E raw \in {"k1"}, nonce \in Nonces, w \in {"ok", "denied"}, lw \in LogWrites :
        LET s == save_database(file, keyfile, db, raw, nonce, w)
            h == handled(s, lw)
        IN
        /\ Journal(h)
        /\ file' = s.file
        /\ keyfile' = s.keyfile
        /\ call' = [op |-> "save_database", res |-> h.res]
        /\ UNCHANGED <<db, now, next_id, proc, peer, harness>>

HandledLoadDatabase ==
    \E raw \in {"k1"}, lw \in LogWrites :
        LET l == load_or_create_database(file, keyfile, raw)
            h == handled(l, lw)
        IN
        /\ Journal(h)
        /\ keyfile' = l.keyfile
        /\ call' = [op |-> "load_or_create_database", res |-> h.res, db |-> l.db]
        /\ UNCHANGED <<db, now, next_id, file, proc, peer, harness>>

NextLog ==
    \/ HandledAddCollection
    \/ HandledSave
    \/ HandledLoad
    \/ HandledSaveDatabase
    \/ HandledLoadDatabase
    \/ Corrupt

SpecLog == Init /\ [][NextLog]_vars

(***************************************************************************)
(* C25.  A returned error is in the history and in the log file.           *)
(***************************************************************************)
Returned(c) == c.res \notin {"none", "Ok", "Panic"}

IsPrefixOf(s, t) == Len(s) <= Len(t) /\ SubSeq(t, 1, Len(s)) = s

\* the handler as the step leaves it
HandlerAfter == [errors |-> errors', logfile |-> logfile', res |-> "Ok"]

ErrorLoggedBeforeReturn ==
    Returned(call') =>
        LET history == all_errors(HandlerAfter) IN
        /\ Len(history) > Len(errors)
        /\ history[Len(history)] = call'.res
        /\ Len(logfile') > Len(logfile)
        /\ logfile'[Len(logfile')] = call'.res

HistoryGrows == IsPrefixOf(errors, all_errors(HandlerAfter))

\* C25: whenever an operation returns an error, that error has been
\* appended to the handler's history and written to the log file before the
\* operation returns; the history only grows, its entries are never
\* removed, changed or reordered, and all_errors returns them in the order
\* they were logged.
C25_ErrorLoggedBeforeReturn == [][ErrorLoggedBeforeReturn /\ HistoryGrows]_vars

(***************************************************************************)
(* C26.  Identity and timestamps of documents, under insertions and both   *)
(* updates while the clock advances.                                       *)
(***************************************************************************)
NextStamp ==
    \/ Tick
    \/ AddCollection
    \/ InsertDocument
    \/ UpdateDocuments
    \/ UpdateDocumentsField

SpecStamp == Init /\ [][NextStamp]_vars

StampsOrdered ==
    \A c \in Collections : \A d \in DocumentsOf(c) : d.created_at <= d.updated_at

NewDocumentStamps ==
    (call'.op = "add_document" /\ call'.res = "Ok") =>
        \E i \in 1..Len(db) :
            LET new == db'[i].documents[Len(db'[i].documents)] IN
            /\ Len(db'[i].documents) = Len(db[i].documents) + 1
            /\ new.id \notin AllIds
            /\ new.created_at = now
            /\ new.updated_at = new.created_at

UpdateKeepsIdentity ==
    call'.op \in {"update_documents", "update_documents_field"} =>
        /\ Len(db') = Len(db)
        /\ \A i \in 1..Len(db) :
               /\ Len(db'[i].documents) = Len(db[i].documents)
               /\ \A j \in 1..Len(db[i].documents) :
                      LET old == db[i].documents[j]
                          new == db'[i].documents[j]
                      IN
                      /\ new.id = old.id
                      /\ new.created_at = old.created_at
                      /\ new.data # old.data => new.updated_at = now
                      /\ new.updated_at \in {old.updated_at, now}

\* C26: a new document has created_at equal to updated_at; every stored
\* document has created_at <= updated_at in every reachable state (the clock
\* never goes back); update_documents and update_documents_field never
\* change a document's id or created_at, and a call that changes a
\* document's data sets its updated_at to the time of the call.
C26_DocumentStamps ==
    []StampsOrdered /\ [][NewDocumentStamps /\ UpdateKeepsIdentity]_vars

\* C26 witness: a document created at time 0 was replaced at time 1 and
\* kept its id and created_at.
C26_Witness ==
    /\ call.op = "update_documents"
    /\ call.res = "Ok"
    /\ now = 1
    /\ Len(db) = 1
    /\ Len(db[1].documents) = 1
    /\ db[1].documents[1].id = Uuid_new_v4(1)
    /\ db[1].documents[1].created_at = 0
    /\ db[1].documents[1].updated_at = 1

(***************************************************************************)
(* C27.  Nosqlite::open on a path that holds no file.                      *)
(***************************************************************************)
OpenCreatesStore ==
    (call'.op = "open" /\ call'.res = "Ok" /\ ~file.exists) =>
        /\ inst' = "open"
        /\ db' = Database_new
        /\ file'.exists

\* C27: when no file exists at the path, Nosqlite::open returns an instance
\* holding an empty catalog and the new empty database is persisted: the
\* store file exists when open returns.
C27_OpenCreatesStore == [][OpenCreatesStore]_vars

(***************************************************************************)
(* C28.  Collections whose structure is not an object.  add_collection     *)
(* refuses them, but Collection::new takes any structure and the fields of *)
(* Database are public, and serde accepts any structure when a store is    *)
(* read back.                                                              *)
(***************************************************************************)
RawStructures == {SName, Str("string"), Arr(<<>>)}

\* db.collections.push(Collection::new(name, structure))
NewCollection ==
    \E name \in DocNames, structure \in RawStructures :
        /\ Alive
        /\ Unused(name)
        /\ db' = Append(db, Collection_new(name, structure, now))
        /\ call' = [op |-> "Collection::new", res |-> "none"]
        /\ logged' = <<>>
        /\ UNCHANGED <<now, next_id, disk, proc, journal, peer, harness>>

\* plaintexts of stores to read back: a collection with a string for its
\* structure that holds a document
StoredCatalogs ==
    {to_string_pretty(<<[Collection_new("users", Str("string"), 0) EXCEPT
                            !.documents = <<Document_new(Obj([name |-> Str("Alice")]),
                                                         "stored", 0)>>]>>)}

\* the catalog serde_json::from_str yields for a decrypted store
Restore ==
    \E text \in StoredCatalogs :
        LET parsed == from_str(text) IN
        /\ Alive
        /\ db = Database_new
        /\ parsed.ok
        /\ db' = parsed.db
        /\ call' = [op |-> "from_str", res |-> "Ok"]
        /\ logged' = <<>>
        /\ UNCHANGED <<now, next_id, disk, proc, journal, peer, harness>>

NextRaw ==
    \/ Tick
    \/ NewCollection
    \/ Restore
    \/ InsertDocument
    \/ UpdateDocuments

SpecRaw == Init /\ [][NextRaw]_vars

UpdateRejectsBadStructure ==
    \A c \in Collections :
        ~is_object(c.structure) =>
            \A q \in Queries : \A data \in Payloads :
                LET o == Collection_update_documents(c, q[1], q[2], data, now) IN
                /\ o.res = "InvalidCollectionStructure"
                /\ o.documents = c.documents

\* C28: update_documents called on a collection whose structure is not a
\* JSON object returns InvalidCollectionStructure, as add_document does, and
\* changes no document.
C28_UpdateRejectsBadStructure == UpdateRejectsBadStructure

(***************************************************************************)
(* C29.  A facade mutation that returns an error.                          *)
(***************************************************************************)
FailedMutationKeepsStore ==
    (call'.op \in FacadeMutations /\ Returned(call')) =>
        /\ file' = file
        /\ db' = db

ReopenAfterFailure ==
    (call.op \in FacadeMutations /\ Returned(call)) =>
        \A raw \in Keys :
            LET l == File_load_or_create(file, keyfile, raw) IN
            l.res = "Ok" /\ l.db = db

\* C29: a facade mutation that returns an error triggers no save: the store
\* file is the same before and after the failed call and the in-memory
\* catalog is unchanged, so a later reopen yields the catalog of the last
\* successful mutation.
C29_FailedMutationKeepsStore ==
    []ReopenAfterFailure /\ [][FailedMutationKeepsStore]_vars

(***************************************************************************)
(* C30.  Two Nosqlite instances on one path.  `db` and `inst` are the      *)
(* first instance, `peer` the second; both save to `file`.  The call of   *)
(* the second keeps, as `over`, the store file its save found.             *)
(***************************************************************************)
PeerCollections == {<<"orders", SName>>, <<"users", SName>>}

Peer_open ==
    \E raw \in Keys :
        LET l == File_load_or_create(file, keyfile, raw) IN
        /\ Alive
        /\ inst = "open"
        /\ peer.inst = "none"
        /\ peer' = IF l.res = "Ok" THEN [inst |-> "open", db |-> l.db] ELSE peer
        /\ keyfile' = l.keyfile
        /\ call' = [op |-> "peer.open", res |-> l.res]
        /\ logged' = l.log
        /\ UNCHANGED <<db, now, next_id, file, proc, journal, harness>>

Peer_create_collection ==
    \E in \in PeerCollections, raw \in Keys, nonce \in Nonces, w \in FacadeWrites :
        LET result == create_collection(peer.db, in[1], in[2], now)
            saved == IF result.res = "Ok"
                     THEN Nosqlite_auto_save(result.db, raw, nonce, w)
                     ELSE SaveOutcome("none", file, keyfile, <<>>)
        IN
        /\ Alive
        /\ peer.inst = "open"
        /\ peer' = [peer EXCEPT !.db = result.db]
        /\ file' = saved.file
        /\ keyfile' = saved.keyfile
        /\ call' = [op |-> "peer.create_collection",
                    res |-> IF saved.res = "Panic" THEN "Panic" ELSE result.res,
                    over |-> file]
        /\ logged' = result.log \o saved.log
        /\ UNCHANGED <<db, now, next_id, proc, journal, harness>>

NextShared ==
    \/ Nosqlite_open
    \/ Nosqlite_create_collection
    \/ Nosqlite_insert_document
    \/ Peer_open
    \/ Peer_create_collection

SpecShared == Init /\ [][NextShared]_vars

\* the catalog the store file holds
Stored == File_load_or_create(file, keyfile, "k1")

\* an instance whose mutation and save succeeded has replaced the store by
\* its own catalog alone
SaveOverwrites ==
    /\ (call.op \in FacadeMutations /\ call.res = "Ok" /\ logged = <<>>) =>
           (Stored.res = "Ok" /\ Stored.db = db)
    /\ (call.op = "peer.create_collection" /\ call.res = "Ok" /\ logged = <<>>) =>
           (Stored.res = "Ok" /\ Stored.db = peer.db)

\* a step of one instance neither changes nor informs the other, and the
\* result of a mutation does not depend on what the store file holds
Unnoticed ==
    /\ call'.op \in {"peer.open", "peer.create_collection"} =>
           (db' = db /\ inst' = inst)
    /\ call'.op \in FacadeMutations \cup {"open"} => peer' = peer
    /\ call'.op = "peer.create_collection" =>
           \E in \in PeerCollections :
               LET result == create_collection(peer.db, in[1], in[2], now) IN
               /\ peer'.db = result.db
               /\ call'.res \in {result.res, "Panic"}

\* C30: nothing excludes two instances on the same path from each other: each
\* successful save replaces the store file by the saving instance's catalog,
\* whatever the file held, so a state is reachable where the store file no
\* longer holds a mutation one instance reported as successful, and neither
\* instance is told.
C30_LostUpdate == []SaveOverwrites /\ [][Unnoticed]_vars

\* C30 witness: the store file held the first instance's catalog with
\* "users"; the second instance, opened before "users" was saved, created
\* "orders" and saved with Ok and nothing logged, and the store file now
\* holds "orders" alone while the first instance still holds "users".
C30_Witness ==
    /\ inst = "open"
    /\ peer.inst = "open"
    /\ call.op = "peer.create_collection"
    /\ call.res = "Ok"
    /\ logged = <<>>
    /\ errors = <<>>
    /\ Database_get_collection(db, "users").some
    /\ File_load_or_create(call.over, keyfile, "k1").res = "Ok"
    /\ File_load_or_create(call.over, keyfile, "k1").db = db
    /\ Stored.res = "Ok"
    /\ ~Database_get_collection(Stored.db, "users").some
    /\ Database_get_collection(Stored.db, "orders").some

(***************************************************************************)
(* C31.  load_or_generate_key on an existing key file of any content.      *)
(***************************************************************************)
KeyErrors == {"IoError", "HexDecodeError"}

KeyOnlyFromWholeFile ==
    keyfile.exists =>
        \A raw \in RawKeys :
            LET o == File_load_or_generate_key(keyfile, raw)
                bytes == hex_decode(keyfile.content)
            IN
            IF bytes.ok /\ bytes.bytes.len = KeyLen
            THEN o.res = "Ok" /\ o.key = bytes.bytes.id
            ELSE o.res \notin {"Ok", "Panic"} /\ o.key = "none"

\* C31: when a key file exists, load_or_generate_key returns a key only if
\* the file's hex content decodes to exactly 32 bytes, and the key is those
\* bytes; content that is not valid hex or decodes to fewer or more than 32
\* bytes yields an error value: no key cut from the content, no abort.
C31_KeyOnlyFromWholeFile == KeyOnlyFromWholeFile

(***************************************************************************)
(* C32.  The log file's path.  persist_error opens                         *)
(* db_path.replace(".nosqlite", ".log") for appending: when the store path *)
(* holds no ".nosqlite" that is the store file itself, and the line is     *)
(* appended to the store.                                                  *)
(***************************************************************************)
StorePaths == {DefaultPath,
               <<"data", ".db">>,
               <<"data">>,
               <<"backup", ".nosqlite", ".old">>}

\* str::replace(from, to): every occurrence
str_replace(s, from, to) == [i \in DOMAIN s |-> IF s[i] = from THEN to ELSE s[i]]

log_path(path) == str_replace(path, ".nosqlite", ".log")

\* a file after OpenOptions::create(true).append(true) and write_all of a
\* log line: what it held, if anything, followed by the line
LogLine == [kind |-> "text", bytes |-> NoBytes]
appended(f) == FileWith(LogLine)

InitPath ==
    /\ InitRest
    /\ db_path \in StorePaths
    /\ vdoc = EmptyMap
    /\ vschema = EmptyMap
    /\ vresult = "none"

\* the files after the log_error calls of an operation that left the store
\* file as f
Persisted(f, h, log) ==
    /\ Alive
    /\ Len(errors) < MaxErrors
    /\ errors' = h.errors
    /\ logged' = log
    /\ IF log = <<>>
       THEN file' = f /\ logfile' = logfile
       ELSE IF log_path(db_path) = db_path
       THEN file' = appended(f) /\ logfile' = logfile
       ELSE file' = f /\ logfile' = h.logfile

PathAddCollection ==
    \E in \in CollectionInputs :
        LET o == Database_add_collection(db, in[1], in[2], now)
            h == handled(o, "ok")
        IN
        /\ Persisted(file, h, o.log)
        /\ db' = o.db
        /\ call' = [op |-> "add_collection", res |-> o.res]
        /\ UNCHANGED <<now, next_id, keyfile, proc, db_path, peer, harness>>

PathSave ==
    \E raw \in {"k1"}, nonce \in Nonces, w \in {"ok", "denied"} :
        LET s == File_save(file, keyfile, db, raw, nonce, w)
            h == handled(s, "ok")
        IN
        /\ Persisted(s.file, h, s.log)
        /\ keyfile' = s.keyfile
        /\ call' = [op |-> "save", res |-> s.res]
        /\ UNCHANGED <<db, now, next_id, proc, db_path, peer, harness>>

PathLoad ==
    \E raw \in {"k1"} :
        LET l == File_load_or_create(file, keyfile, raw)
            h == handled(l, "ok")
        IN
        /\ Persisted(file, h, l.log)
        /\ keyfile' = l.keyfile
        /\ call' = [op |-> "load_or_create", res |-> l.res, db |-> l.db]
        /\ UNCHANGED <<db, now, next_id, proc, db_path, peer, harness>>

NextPath ==
    \/ PathAddCollection
    \/ PathSave
    \/ PathLoad

SpecPath == InitPath /\ [][NextPath]_vars

LogPathDiffers == log_path(db_path) # db_path

LoggingSparesStore ==
    /\ (logged' # <<>> /\ call'.op # "save") => file' = file
    /\ (Stored.res = "Ok" /\ file.exists /\ call'.op # "save") =>
           (Stored'.res = "Ok" /\ Stored'.db = Stored.db)
    /\ Len(logfile') = Len(logfile) + Len(logged')

\* C32: for every store path given to Nosqlite::open or
\* NosqliteErrorHandler::new the log file's path differs from the store
\* path, so logging an error appends to the log file and never changes the
\* store file, and a store saved before an error was logged can still be
\* reopened afterwards.
C32_LogPathDiffers == []LogPathDiffers /\ [][LoggingSparesStore]_vars

(***************************************************************************)
(* C33.  How many entries a failing call appends to the history.           *)
(***************************************************************************)
OneEntryPerFailure ==
    Returned(call') => errors' = Append(errors, call'.res)

\* C33: each failing operation appends exactly one entry to the error
\* history: after a call that returns an error the history is the previous
\* history followed by that single error, also for the failures of load and
\* of save reached through load_or_create_database and save_database.
C33_OneEntryPerFailure == [][OneEntryPerFailure]_vars

\* the errors File::load_or_create logs for the error it returns
LoadEntries(res) ==
    CASE res \in {"IoError", "HexDecodeError"} -> {<<res>>}
      [] res = "EncryptionError" ->
            {<<"Base64DecodeError", res>>, <<res, res>>, <<"DeserializationError", res>>}
      [] res = "InvalidDatabaseFormat" -> {<<"DeserializationError", res>>}
      [] OTHER -> {}

EntriesPerFailure ==
    Returned(call') =>
        /\ errors' = errors \o logged'
        /\ logged' # <<>>
        /\ logged'[Len(logged')] = call'.res
        /\ call'.op \in {"add_collection", "save"} => logged' = <<call'.res>>
        /\ call'.op = "load_or_create" => logged' \in LoadEntries(call'.res)
        /\ call'.op = "save_database" => logged' = <<call'.res, call'.res>>
        /\ call'.op = "load_or_create_database" =>
               \E entries \in LoadEntries(call'.res) :
                   logged' = Append(entries, call'.res)

\* C33, amended: each failing operation appends at least one entry, and the
\* returned error is the last one.  It is the only one for add_collection
\* and File::save; File::load_or_create logs the error of the failed stage
\* before it (two entries for a decrypt or parse failure), and
\* load_or_create_database and save_database append the returned error once
\* more.
C33_EntriesPerFailure == [][EntriesPerFailure]_vars

\* C33 witness: load_or_create_database on a store that decrypts but does
\* not parse left three entries behind an earlier one.
C33_Witness ==
    /\ call.op = "load_or_create_database"
    /\ call.res = "InvalidDatabaseFormat"
    /\ logged = <<"DeserializationError", "InvalidDatabaseFormat", "InvalidDatabaseFormat">>
    /\ Len(errors) = 4
    /\ errors[1] = "CollectionAlreadyExists"
    /\ SubSeq(errors, 2, 4) = logged

(***************************************************************************)
(* C34.  The four document operations together, on collections made by    *)
(* add_collection: what the data of a stored document can be.              *)
(***************************************************************************)
NextObjects ==
    \/ AddCollection
    \/ InsertDocument
    \/ UpdateDocuments
    \/ UpdateDocumentsFieldAny
    \/ DeleteDocuments

SpecObjects == Init /\ [][NextObjects]_vars

DataIsObject ==
    \A c \in Collections : \A d \in DocumentsOf(c) : is_object(d.data)

PatchIsWhole ==
    \A c \in Collections : \A q \in Queries :
    \A target \in PatchTargets : \A v \in PatchValues :
        LET o == Collection_update_documents_field(c, q[1], q[2], target, v, now)
            m == matching_indices(c.documents, q[1], q[2])
        IN
        /\ o.res \in {"Ok", "DocumentNotFound"}
        /\ o.res = "DocumentNotFound" => (m = {} /\ o.documents = c.documents)
        /\ o.res = "Ok" =>
               /\ m # {}
               /\ \A i \in m : /\ is_object(o.documents[i].data)
                               /\ o.documents[i].data.v[target] = v

PatchStepIsWhole ==
    call'.op = "update_documents_field" =>
        /\ call'.res \in {"Ok", "DocumentNotFound", "CollectionNotFound"}
        /\ call'.res # "Ok" => db' = db

\* C34: in every state reached through add_document, update_documents,
\* update_documents_field and delete_documents the data of every stored
\* document is a JSON object; so update_documents_field never returns
\* DocumentInvalid and never stops with only some of the matching documents
\* patched.
C34_DataIsObject ==
    /\ [](DataIsObject /\ PatchIsWhole)
    /\ [][PatchStepIsWhole]_vars

\* C34 witness: after non-object payloads were refused, one
\* update_documents_field patched both documents of a collection, and both
\* are objects.
C34_Witness ==
    /\ call.op = "update_documents_field"
    /\ call.res = "Ok"
    /\ \E c \in Collections :
          /\ Len(c.documents) = 2
          /\ \A k \in 1..2 :
                /\ is_object(c.documents[k].data)
                /\ DOMAIN c.documents[k].data.v = {"name", "age"}
                /\ c.documents[k].data.v["age"] = Num(42)
                /\ c.documents[k].data.v["name"] = Str("Alice")

(***************************************************************************)
(* C35.  Collections made through the facade while the clock advances,     *)
(* saved, dropped and opened again: what their name, structure and         *)
(* created_at can become.                                                  *)
(***************************************************************************)
\* one key; the auto-save of a collection change lands or is refused, the
\* auto-save of a document change lands
ReopenWrites == {"ok", "denied"}

Reopen_open ==
    LET l == File_load_or_create(file, keyfile, "k1") IN
    /\ Alive
    /\ inst = "none"
    /\ inst' = IF l.res = "Ok" THEN "open" ELSE "none"
    /\ db' = IF l.res = "Ok" THEN l.db ELSE db
    /\ keyfile' = l.keyfile
    /\ call' = [op |-> "open", res |-> l.res]
    /\ logged' = l.log
    /\ UNCHANGED <<now, next_id, file, inflight, journal, peer, harness>>

Reopen_create_collection ==
    \E in \in FacadeCollections, nonce \in Nonces, w \in ReopenWrites :
        /\ Nosqlite_mutation("create_collection",
                             create_collection(db, in[1], in[2], now), "k1", nonce, w)
        /\ UNCHANGED next_id

Reopen_delete_collection ==
    \E name \in DocNames, nonce \in Nonces, w \in ReopenWrites :
        /\ Nosqlite_mutation("delete_collection",
                             delete_collection(db, name), "k1", nonce, w)
        /\ UNCHANGED next_id

Reopen_insert_document ==
    \E name \in DocNames, data \in FacadePayloads, nonce \in Nonces :
        /\ next_id < MaxIds
        /\ Nosqlite_mutation("insert_document",
                             insert_document(db, name, data, Uuid_new_v4(next_id + 1), now),
                             "k1", nonce, "ok")
        /\ next_id' = IF call'.res = "Ok" THEN next_id + 1 ELSE next_id

Reopen_update_documents ==
    \E name \in DocNames, q \in FacadeQueries, data \in FacadePayloads,
       nonce \in Nonces :
        /\ Nosqlite_mutation("update_documents",
                             update_documents(db, name, q[1], q[2], data, now),
                             "k1", nonce, "ok")
        /\ UNCHANGED next_id

Reopen_update_documents_field ==
    \E name \in DocNames, q \in FacadeQueries, target \in TargetFields,
       v \in PatchValues, nonce \in Nonces :
        /\ Nosqlite_mutation("update_documents_field",
                             update_documents_field(db, name, q[1], q[2], target, v, now),
                             "k1", nonce, "ok")
        /\ UNCHANGED next_id

Reopen_delete_document ==
    \E name \in DocNames, id \in FacadeIds, nonce \in Nonces :
        /\ Nosqlite_mutation("delete_document",
                             delete_document(db, name, id), "k1", nonce, "ok")
        /\ UNCHANGED next_id

NextReopen ==
    \/ Tick
    \/ Reopen_open
    \/ Nosqlite_drop
    \/ Reopen_create_collection
    \/ Reopen_delete_collection
    \/ Reopen_insert_document
    \/ Reopen_update_documents
    \/ Reopen_update_documents_field
    \/ Reopen_delete_document

SpecReopen == Init /\ [][NextReopen]_vars

Ident(c) == [name |-> c.name, structure |-> c.structure, created_at |-> c.created_at]
Idents(d) == [i \in 1..Len(d) |-> Ident(d[i])]

StructureIsObject == \A c \in Collections : is_object(c.structure)

AddDocumentFindsStructure ==
    \A c \in Collections : \A data \in FacadePayloads \cup Payloads :
        Collection_add_document(c, data, Uuid_new_v4(next_id + 1), now).res
            # "InvalidCollectionStructure"

\* saving the catalog and loading what was written gives back every
\* collection's name, structure and created_at
RoundTripKeepsIdents ==
    \A raw \in Keys, nonce \in Nonces :
        LET s == File_save(file, keyfile, db, raw, nonce, "ok")
            l == File_load_or_create(s.file, s.keyfile, raw)
        IN s.res = "Ok" => (l.res = "Ok" /\ Idents(l.db) = Idents(db))

DocumentOps ==
    {"insert_document", "update_documents", "update_documents_field", "delete_document"}

IdentsKept ==
    /\ call'.op \in DocumentOps => Idents(db') = Idents(db)
    /\ call'.op = "insert_document" => call'.res # "InvalidCollectionStructure"
    /\ call'.op = "create_collection" =>
           /\ IsPrefixOf(Idents(db), Idents(db'))
           /\ Len(db') <= Len(db) + 1
           /\ \A i \in (Len(db) + 1)..Len(db') : db'[i].created_at = now
    /\ call'.op = "delete_collection" =>
           \A c \in {db'[i] : i \in 1..Len(db')} :
               \E c0 \in Collections : Ident(c) = Ident(c0)
    /\ (call'.op = "open" /\ call'.res = "Ok" /\ Stored.res = "Ok" /\ file.exists) =>
           Idents(db') = Idents(Stored.db)

\* C35: the structure of every collection created through add_collection
\* is a JSON object in every reachable state: no operation changes a
\* collection's name, structure or created_at, and saving and loading the
\* catalog preserves them; so add_document never returns
\* InvalidCollectionStructure on such a collection.
C35_StructureIsObject ==
    /\ [](StructureIsObject /\ AddDocumentFindsStructure /\ RoundTripKeepsIdents)
    /\ [][IdentsKept]_vars

\* C35 witness: a collection created at time 0 and holding a document came
\* back from the store file at time 1 with its name, object structure and
\* created_at.
C35_Witness ==
    /\ call.op = "open"
    /\ call.res = "Ok"
    /\ now = 1
    /\ Len(db) = 1
    /\ Ident(db[1]) = [name |-> "users", structure |-> SName, created_at |-> 0]
    /\ Len(db[1].documents) = 1

(***************************************************************************)
(* C36.  Collections whose schema holds a leaf the validator cannot        *)
(* satisfy, next to one with a sound schema.                               *)
(***************************************************************************)
SBadName == Obj([name |-> Str("text")])
SBadNumber == Obj([name |-> Num(42)])
SBadNull == Obj([name |-> Null])
SBadNested == Obj([name |-> Str("string"), meta |-> Obj([k |-> Str("text")])])
SBadArray == Obj([name |-> Str("string"), meta |-> Arr(<<>>)])

BadSchemas == {SBadName, SBadNumber, SBadNull, SBadNested, SBadArray}
LeafSchemas == BadSchemas \cup {SName}
LeafPayloads ==
    Payloads \cup {Obj(EmptyMap),
                   Obj([name |-> Str("text")]),
                   Obj([name |-> Str("Alice"), meta |-> Obj([k |-> Str("text")])]),
                   Obj([name |-> Str("Alice"), meta |-> Arr(<<>>)]),
                   Obj([name |-> Null])}

\* the payloads the calls are made with
LeafCalls ==
    {Obj([name |-> Str("Alice")]),
     Obj([name |-> Str("text")]),
     Obj([name |-> Null]),
     Obj([name |-> Str("Alice"), meta |-> Obj([k |-> Str("text")])]),
     Num(42)}

\* the schema map holds, at any depth, an entry no value can satisfy
RECURSIVE HasBadLeafDeep(_)
HasBadLeafDeep(S) ==
    \E k \in DOMAIN S :
        \/ S[k].t \notin {"string", "object"}
        \/ S[k].t = "string"
           /\ to_lowercase(S[k].v) \notin {"string", "number", "boolean", "array", "object"}
        \/ S[k].t = "object" /\ HasBadLeafDeep(S[k].v)

AddCollectionLeaf ==
    \E structure \in LeafSchemas :
        /\ Apply(Database_add_collection(db, "users", structure, now),
                 [op |-> "add_collection", res |-> "none", structure |-> structure])
        /\ UNCHANGED <<now, next_id, disk, proc, journal, peer, harness>>

InsertDocumentLeaf ==
    \E data \in LeafCalls :
        /\ next_id < MaxIds
        /\ Apply(insert_document(db, "users", data, Uuid_new_v4(next_id + 1), now),
                 [op |-> "add_document", res |-> "none", data |-> data])
        /\ next_id' = IF call'.res = "Ok" THEN next_id + 1 ELSE next_id
        /\ UNCHANGED <<now, disk, proc, journal, peer, harness>>

UpdateDocumentsLeaf ==
    \E q \in Queries, data \in LeafCalls :
        /\ Apply(update_documents(db, "users", q[1], q[2], data, now),
                 [op |-> "update_documents", res |-> "none", data |-> data])
        /\ UNCHANGED <<now, next_id, disk, proc, journal, peer, harness>>

NextLeaf ==
    \/ AddCollectionLeaf
    \/ RemoveCollection
    \/ InsertDocumentLeaf
    \/ UpdateDocumentsLeaf
    \/ UpdateDocumentsFieldAny
    \/ DeleteDocuments

SpecLeaf == Init /\ [][NextLeaf]_vars

Unsatisfiable(c) == is_object(c.structure) /\ HasBadLeafDeep(c.structure.v)

BadLeafAccepted ==
    db = <<>> =>
        \A structure \in BadSchemas :
            LET o == Database_add_collection(db, "users", structure, now) IN
            /\ o.res = "Ok"
            /\ Len(o.db) = 1
            /\ o.db[1].structure = structure
            /\ Unsatisfiable(o.db[1])

BadLeafRefusesAll ==
    \A c \in Collections :
        Unsatisfiable(c) =>
            /\ c.documents = <<>>
            /\ \A data \in LeafPayloads :
                  /\ Collection_add_document(c, data, Uuid_new_v4(next_id + 1), now).res
                         = "DocumentInvalid"
                  /\ \A q \in Queries :
                        Collection_update_documents(c, q[1], q[2], data, now).res
                            = "DocumentInvalid"

BadLeafStep ==
    /\ (call'.op = "add_collection" /\ db = <<>>) => call'.res = "Ok"
    /\ (call'.op \in {"add_document", "update_documents"}
            /\ \E c \in Collections : Unsatisfiable(c)) =>
           (call'.res = "DocumentInvalid" /\ db' = db)

\* C36: add_collection checks only that the schema is an object: a schema
\* with a leaf that is an unrecognized type name, or neither a string nor an
\* object, is accepted; every later add_document and update_documents on
\* that collection fails with DocumentInvalid whatever the payload, and the
\* collection never holds a document.
C36_BadLeafRefusesAll ==
    /\ [](BadLeafAccepted /\ BadLeafRefusesAll)
    /\ [][BadLeafStep]_vars

\* C36 witness: on a collection accepted with the type name "text" for
\* "name", an add_document whose "name" is the string "text" was refused
\* with DocumentInvalid and the collection is empty.
C36_Witness ==
    /\ call.op = "add_document"
    /\ call.res = "DocumentInvalid"
    /\ call.data = Obj([name |-> Str("text")])
    /\ Len(db) = 1
    /\ db[1].structure = SBadName
    /\ db[1].documents = <<>>

=============================================================================
